---- MODULE Spec2Model ----
(***************************************************************************)
(* Model of the debate Manager (package debate) of AIs-Talk: the session   *)
(* state guarded by Manager.mu, the goroutines that run NextTurn and       *)
(* TurnByAgent, and the provider goroutine that feeds each turn's response *)
(* channel.                                                                *)
(*                                                                         *)
(* Granularity.  A critical section of the Go code (mu.Lock .. mu.Unlock)  *)
(* is never split.  Statements that touch only the locals of a turn or its *)
(* own stream channel are folded into the neighbouring critical section:   *)
(* no other goroutine reads them, so the interleavings that are lost differ *)
(* only in the order of independent steps.  For the same reason the return *)
(* of a call to its caller is taken before any other step.                 *)
(***************************************************************************)
EXTENDS Integers, Sequences, FiniteSets, TLC

\* ------------------------------------------------------------------ bounds
\* largest value the message counter may reach before new calls are refused
MaxMsgCounter == 2
\* largest number of content chunks one upstream response carries
MaxChunks == 1
\* longest message log a context is built from
MaxLog == 3
\* lines of an upstream response body
MaxLines == 3
\* content chunks of an adapter stream the gateway serves
MaxStream == 2
\* symbols of a text handed to the sanitizer
MaxText == 4
\* times one text is cleaned
MaxCleanings == 2

\* ------------------------------------------------------------ input sets
Workers == {"w1", "w2"}
AgentIds == {"a1", "a2"}
\* the ids TurnByAgent is called with: the agents and an id no agent has
RequestedIds == AgentIds \cup {"nobody"}
Topics == {"t1", "t2"}
\* the workers that call NextTurn where the mode is switched
ModeWorkers == {"w1"}
Rosters == {<<>>, <<"a1">>, <<"a1", "a2">>}
InitAgents == <<"a1", "a2">>

ModeRoundRobin == "round_robin"
ModeFreeForm == "free_form"
Modes == {ModeRoundRobin, ModeFreeForm}

\* the nil context / nil cancel function of a Manager that never started
NoCtx == 0
\* identities of live cancellation scopes: one held by the Manager and one
\* captured by each worker, plus one so that a fresh one always exists
CtxIds == 1..(Cardinality(Workers) + 2)

VARIABLES
    agents,            \* m.agents: sequence of agent ids
    messages,          \* m.messages: sequence of Message
    topic,             \* m.topic
    mode,              \* m.mode
    currentIndex,      \* m.currentIndex
    isRunning,         \* m.isRunning
    isTurnInProgress,  \* m.isTurnInProgress
    ctx,               \* m.ctx / m.cancel: identity of the current scope
    cancelled,         \* scopes whose cancel function has been called
    msgCounter,        \* m.msgCounter
    pc,                \* per worker: position inside NextTurn/TurnByAgent
    currentAgent,      \* per worker: local currentAgent / targetAgent
    wctx,              \* per worker: local ctx captured under the lock
    chatMessages,      \* per worker: the local "messages" of a turn, the
                       \* context buildContext returned
    msgID,             \* per worker: local msgID (the number n of msg_n)
    respCh,            \* per worker: chunks buffered in respCh
    prov,              \* per worker: state of the provider goroutine
    streamCh,          \* per worker: events sent on this turn's streamCh
    ret,               \* per worker: value returned by the call
    stopInFlight,      \* history: Stop/Reset ran while this turn was in flight
    stopStreaming,     \* history: Stop ran while this turn was in its receive loop
    startInFlight,     \* history: Start succeeded while this turn was in flight
    turnCount,         \* history: NextTurn calls that passed the guards since
                       \* the cursor was last cleared by Start or Reset,
                       \* modulo the size of the roster
    freeFormTurn,      \* history: "turn" once NextTurn picked a speaker in
                       \* free-form mode, "done" once that turn stored its
                       \* Message, "switched" once SetMode(round_robin) came
                       \* next; any other call puts it back to "none"
    lastCall,          \* the Manager API call that is returning, if any
    mu,                \* m.mu: "free" or the worker that holds it.  A step
                       \* that runs a whole critical section finds and
                       \* leaves it free
    agentCall,         \* one call of Agent.Chat: the agent, the options of
                       \* the call and what reaches the provider
    adapter,           \* one call of a provider's Chat: the upstream body,
                       \* the locals of its goroutine and its channel ch
    gateway,           \* one completion request of the Proxy: the adapter's
                       \* channel, the locals of the handler and the response
    sanitizer,         \* one text handed to cleanMessageContent
    server,            \* the HTTP server: the goroutines of its turn
                       \* handlers and the events handed to hub.Broadcast
    client,            \* the web client: its flags and the requests it sent
    app                \* the desktop app: the goroutines of its turn workers

mvars == <<agents, messages, topic, mode, currentIndex, isRunning,
           isTurnInProgress, ctx, cancelled, msgCounter>>
wvars == <<pc, currentAgent, wctx, chatMessages, msgID, respCh, prov, streamCh,
           ret>>
svars == <<stopInFlight, stopStreaming, startInFlight>>
hvars == <<svars, turnCount, freeFormTurn>>
uvars == <<server, client, app>>
pvars == <<agentCall, adapter, gateway, sanitizer, uvars>>
vars == <<mvars, wvars, hvars, lastCall, mu, pvars>>

\* ---------------------------------------------------------------- helpers
Last(s) == s[Len(s)]

\* Message{ID, AgentID}: the fields the Manager itself reads back; ID is the
\* number n of "msg_n"
Message(id, agent) == [ID |-> id, AgentID |-> agent]

\* StreamMessage{Type, MessageID}; error events carry no message id
StreamMessage(type, mid) == [Type |-> type, MessageID |-> mid]

\* provider.StreamChunk{Content, Done, Error}
StreamChunk(content, done, err) == [Content |-> content, Done |-> done, Error |-> err]
ErrNil == "nil"
ErrCanceled == "context canceled"
ErrOther == "upstream error"

\* no call is returning
NoCall == [op |-> "none", arg |-> "", ret |-> "none"]
Quiet == lastCall = NoCall /\ \A w \in Workers : pc[w] # "ret"

\* a turn is in flight from the step that set isTurnInProgress up to the
\* step after which it touches the session no more
InFlight(w) == pc[w] \in {"begin", "loop"}

\* scopes still referenced by the Manager or by a worker
ReferencedCtx(c, wc) == {c} \cup {wc[w] : w \in Workers}

\* drop cancellation marks of scopes nobody references any more
Collect(cs, c, wc) == cs \cap ReferencedCtx(c, wc)

\* context.WithCancel(context.Background()): a scope nobody holds yet
WithCancel ==
    CHOOSE c \in CtxIds :
        /\ c \notin ReferencedCtx(ctx, wctx)
        /\ \A d \in CtxIds : d \notin ReferencedCtx(ctx, wctx) => c <= d

\* the scope the first Start or Continue of a Manager creates
WithCancelFirst == CHOOSE c \in CtxIds : \A d \in CtxIds : c <= d

\* faulty variant: the cancel function is never called
CancelScopeNoCancel == cancelled

\* "if m.cancel != nil { m.cancel() }": the scope the Manager holds is cancelled
CancelScope ==
    IF ctx # NoCtx THEN cancelled \cup {ctx} ELSE cancelled

\* the counter, with the increments that turns past their guard still owe,
\* stays within MaxMsgCounter
CounterRoom ==
    msgCounter + Cardinality({w \in Workers : pc[w] \in {"begin", "toCount", "count"}})
        < MaxMsgCounter

\* ------------------------------------------------------------------- Init
\* a part of the program that has not been called
NotCalled == [state |-> "none"]

\* no front end drives the Manager
NoFrontEnd == server = NotCalled /\ client = NotCalled /\ app = NotCalled

\* NewManager(agents)
NewManager ==
    /\ agents = InitAgents
    /\ messages = <<>>
    /\ topic = ""
    /\ mode = ModeRoundRobin
    /\ currentIndex = 0
    /\ isRunning = FALSE
    /\ isTurnInProgress = FALSE
    /\ ctx = NoCtx
    /\ cancelled = {}
    /\ msgCounter = 0
    /\ pc = [w \in Workers |-> "idle"]
    /\ currentAgent = [w \in Workers |-> "none"]
    /\ wctx = [w \in Workers |-> NoCtx]
    /\ chatMessages = [w \in Workers |-> <<>>]
    /\ msgID = [w \in Workers |-> 0]
    /\ respCh = [w \in Workers |-> <<>>]
    /\ prov = [w \in Workers |-> "none"]
    /\ streamCh = [w \in Workers |-> <<>>]
    /\ ret = [w \in Workers |-> "none"]
    /\ stopInFlight = [w \in Workers |-> FALSE]
    /\ stopStreaming = [w \in Workers |-> FALSE]
    /\ startInFlight = [w \in Workers |-> FALSE]
    /\ turnCount = 0
    /\ freeFormTurn = "none"
    /\ lastCall = NoCall
    /\ mu = "free"

\* the Manager alone: no agent call, adapter, gateway request or text
Init ==
    /\ NewManager
    /\ agentCall = NotCalled
    /\ adapter = NotCalled
    /\ gateway = NotCalled
    /\ sanitizer = NotCalled
    /\ NoFrontEnd

\* ------------------------------------------------------- Manager API calls
\* SetMode(mode)
SetMode(md) ==
    /\ Quiet
    /\ mode' = md
    /\ freeFormTurn' = IF freeFormTurn = "done" /\ md = ModeRoundRobin
                       THEN "switched" ELSE "none"
    /\ lastCall' = [op |-> "SetMode", arg |-> "", ret |-> "nil"]
    /\ UNCHANGED <<agents, messages, topic, currentIndex, isRunning,
                   isTurnInProgress, ctx, cancelled, msgCounter>>
    /\ UNCHANGED <<wvars, svars, turnCount>>
    /\ UNCHANGED mu
    /\ UNCHANGED pvars

\* faulty variant: Start does not look at isRunning
StartRejectsNever == FALSE

\* Start: "if m.isRunning { return already running }"
StartRejects == isRunning

\* faulty variant: Start keeps the scope of the previous session
StartScopeReused == IF ctx # NoCtx THEN ctx ELSE WithCancel

\* Start: "m.ctx, m.cancel = context.WithCancel(context.Background())"
StartScope == WithCancel

\* Start(topic)
Start(t) ==
    /\ Quiet
    /\ IF StartRejects
       THEN /\ lastCall' = [op |-> "Start", arg |-> t, ret |-> "debate is already running"]
            /\ UNCHANGED <<mvars, wvars, hvars>>
       ELSE /\ topic' = t
            /\ messages' = <<>>
            /\ currentIndex' = 0
            /\ isRunning' = TRUE
            /\ ctx' = StartScope
            /\ cancelled' = Collect(cancelled, ctx', wctx)
            /\ turnCount' = 0
            /\ freeFormTurn' = "none"
            /\ startInFlight' = [w \in Workers |-> startInFlight[w] \/ InFlight(w)]
            /\ lastCall' = [op |-> "Start", arg |-> t, ret |-> "nil"]
            /\ UNCHANGED <<agents, mode, isTurnInProgress, msgCounter>>
            /\ UNCHANGED <<wvars, stopInFlight, stopStreaming>>
    /\ UNCHANGED mu
    /\ UNCHANGED pvars

\* faulty variant: the separator is appended to an empty log as well
ContinueAppendsAlways == TRUE

\* Continue: "if len(m.messages) > 0": a separator is appended
ContinueAppends == Len(messages) > 0

\* Continue(newTopic)
Continue(t) ==
    /\ Quiet
    /\ IF ContinueAppends
       THEN /\ CounterRoom
            /\ msgCounter' = msgCounter + 1
            /\ messages' = Append(messages, Message(msgCounter + 1, "system"))
       ELSE UNCHANGED <<msgCounter, messages>>
    /\ topic' = t
    /\ isRunning' = TRUE
    /\ ctx' = WithCancel
    /\ cancelled' = Collect(cancelled, ctx', wctx)
    /\ freeFormTurn' = "none"
    /\ lastCall' = [op |-> "Continue", arg |-> t, ret |-> "nil"]
    /\ UNCHANGED <<agents, mode, currentIndex, isTurnInProgress>>
    /\ UNCHANGED <<wvars, svars, turnCount>>
    /\ UNCHANGED mu
    /\ UNCHANGED pvars

\* Stop()
Stop ==
    /\ Quiet
    /\ cancelled' = CancelScope
    /\ isRunning' = FALSE
    /\ stopInFlight' = [w \in Workers |-> stopInFlight[w] \/ InFlight(w)]
    /\ stopStreaming' = [w \in Workers |-> stopStreaming[w] \/ pc[w] = "loop"]
    /\ lastCall' = [op |-> "Stop", arg |-> "", ret |-> "nil"]
    /\ UNCHANGED <<agents, messages, topic, mode, currentIndex,
                   isTurnInProgress, ctx, msgCounter>>
    /\ freeFormTurn' = "none"
    /\ UNCHANGED <<wvars, turnCount, startInFlight>>
    /\ UNCHANGED mu
    /\ UNCHANGED pvars

\* faulty variant: Reset keeps the message counter
ResetCounterKept == msgCounter

\* Reset: "m.msgCounter = 0"
ResetCounter == 0

\* Reset()
Reset ==
    /\ Quiet
    /\ cancelled' = CancelScope
    /\ messages' = <<>>
    /\ topic' = ""
    /\ isRunning' = FALSE
    /\ currentIndex' = 0
    /\ msgCounter' = ResetCounter
    /\ stopInFlight' = [w \in Workers |-> stopInFlight[w] \/ InFlight(w)]
    /\ lastCall' = [op |-> "Reset", arg |-> "", ret |-> "nil"]
    /\ turnCount' = 0
    /\ freeFormTurn' = "none"
    /\ UNCHANGED <<agents, mode, isTurnInProgress, ctx, stopStreaming,
                   startInFlight>>
    /\ UNCHANGED wvars
    /\ UNCHANGED mu
    /\ UNCHANGED pvars

\* faulty variant: the reload leaves the cursor where it was
ReloadCursorKept == currentIndex

\* "m.currentIndex = 0" of UpdateAgents
ReloadCursor == 0

\* UpdateAgents(agents)
UpdateAgents(r) ==
    /\ Quiet
    /\ agents' = r
    /\ currentIndex' = ReloadCursor
    /\ freeFormTurn' = "none"
    /\ lastCall' = [op |-> "UpdateAgents", arg |-> "", ret |-> "nil"]
    /\ UNCHANGED <<messages, topic, mode, isRunning, isTurnInProgress, ctx,
                   cancelled, msgCounter>>
    /\ UNCHANGED <<wvars, svars, turnCount>>
    /\ UNCHANGED mu
    /\ UNCHANGED pvars

\* the API call hands its result to its caller
CallReturns ==
    /\ lastCall # NoCall
    /\ lastCall' = NoCall
    /\ UNCHANGED <<mvars, wvars, hvars>>
    /\ UNCHANGED mu
    /\ UNCHANGED pvars

\* ------------------------------------------------------------ turn workers
\* faulty variant: the running check is missing
TurnRejectsNotRunningNever == FALSE

\* NextTurn/TurnByAgent: "if !m.isRunning"
TurnRejectsNotRunning == ~isRunning

\* faulty variant: the turn-in-progress check is missing
TurnRejectsInProgressNever == FALSE

\* NextTurn/TurnByAgent: "if m.isTurnInProgress"
TurnRejectsInProgress == isTurnInProgress

\* NextTurn/TurnByAgent: "if len(m.agents) == 0"
TurnRejectsNoAgents == Len(agents) = 0

\* the error of the first guard that rejects the call, "nil" if none does
GuardError ==
    IF TurnRejectsNotRunning THEN "debate is not running"
    ELSE IF TurnRejectsInProgress THEN "a turn is already in progress"
    ELSE IF TurnRejectsNoAgents THEN "no agents available"
    ELSE "nil"

\* selectNextAgent: the agent chosen and the cursor it leaves behind
selectNextAgent ==
    IF Len(messages) = 0
    THEN [agent |-> agents[1], index |-> currentIndex]
    ELSE LET lastSpeaker == Last(messages).AgentID
             others == {i \in 1..Len(agents) : agents[i] # lastSpeaker}
         IN IF others # {}
            THEN LET i == CHOOSE j \in others : \A k \in others : j <= k
                 IN [agent |-> agents[i], index |-> i - 1]
            ELSE LET n == (currentIndex + 1) % Len(agents)
                 IN [agent |-> agents[n + 1], index |-> n]

\* faulty variant: round robin advances the cursor without wrapping around
PickSpeakerUnwrapped ==
    IF mode = ModeRoundRobin
    THEN [agent |-> agents[currentIndex + 1], index |-> currentIndex + 1]
    ELSE selectNextAgent

\* faulty variant: round robin does not advance the cursor
PickSpeakerStuck ==
    IF mode = ModeRoundRobin
    THEN [agent |-> agents[currentIndex + 1], index |-> currentIndex]
    ELSE selectNextAgent

\* the speaker NextTurn picks and the cursor it leaves behind
PickSpeaker ==
    IF mode = ModeRoundRobin
    THEN [agent |-> agents[currentIndex + 1],
          index |-> (currentIndex + 1) % Len(agents)]
    ELSE selectNextAgent

\* faulty variant: the rejected call reports its error on the stream too
RejectedSendsError(w, err) ==
    /\ pc' = [pc EXCEPT ![w] = "ret"]
    /\ ret' = [ret EXCEPT ![w] = err]
    /\ streamCh' = [streamCh EXCEPT ![w] = <<StreamMessage("error", 0)>>]
    /\ UNCHANGED <<mvars, hvars, lastCall>>
    /\ UNCHANGED <<currentAgent, wctx, chatMessages, msgID, respCh, prov>>

\* a call that a guard rejects returns its error at once, nothing is sent
Rejected(w, err) ==
    /\ pc' = [pc EXCEPT ![w] = "ret"]
    /\ ret' = [ret EXCEPT ![w] = err]
    /\ UNCHANGED <<mvars, hvars, lastCall>>
    /\ UNCHANGED <<currentAgent, wctx, chatMessages, msgID, respCh, prov,
                   streamCh>>

\* a call that passed the guards: "m.isTurnInProgress = true ... ctx := m.ctx"
Admitted(w, agent) ==
    /\ CounterRoom
    /\ isTurnInProgress' = TRUE
    /\ currentAgent' = [currentAgent EXCEPT ![w] = agent]
    /\ wctx' = [wctx EXCEPT ![w] = ctx]
    /\ pc' = [pc EXCEPT ![w] = "begin"]
    /\ UNCHANGED <<agents, messages, topic, mode, isRunning, ctx,
                   cancelled, msgCounter>>
    /\ UNCHANGED <<chatMessages, msgID, respCh, prov, streamCh, ret, svars,
                   lastCall>>

\* the goroutine a new call runs in.  The goroutines that serve calls are
\* interchangeable and keep nothing from one call to the next, so one idle
\* worker stands for all of them
IdleWorker == CHOOSE v \in Workers : pc[v] = "idle"

\* NextTurn, first critical section: guards, speaker selection, ctx capture
NextTurnCall(w) ==
    /\ Quiet
    /\ w = IdleWorker
    /\ pc[w] = "idle"
    /\ IF GuardError # "nil"
       THEN Rejected(w, GuardError)
       ELSE /\ Admitted(w, PickSpeaker.agent)
            /\ currentIndex' = PickSpeaker.index
            /\ turnCount' = (turnCount + 1) % Len(agents)
            /\ freeFormTurn' = IF mode = ModeFreeForm THEN "turn" ELSE "none"
    /\ UNCHANGED mu
    /\ UNCHANGED pvars

\* TurnByAgent: "for _, a := range m.agents { if a.ID == agentID ..."
AgentFound(agentID) == \E i \in 1..Len(agents) : agents[i] = agentID

\* TurnByAgent, first critical section: guards, agent lookup, ctx capture
TurnByAgentCall(w, agentID) ==
    /\ Quiet
    /\ w = IdleWorker
    /\ pc[w] = "idle"
    /\ IF GuardError # "nil"
       THEN Rejected(w, GuardError)
       ELSE IF ~AgentFound(agentID)
       THEN Rejected(w, "agent not found")
       ELSE /\ Admitted(w, agentID)
            /\ freeFormTurn' = "none"
            /\ UNCHANGED <<currentIndex, turnCount>>
    /\ UNCHANGED mu
    /\ UNCHANGED pvars

\* provider.Message{Role, Content}
ProviderMessage(role, content) == [Role |-> role, Content |-> content]

\* the texts buildContext puts into the context.  The topic prompt names the
\* topic, the roster and the agent that is to speak; a quoted message is
\* "**<AgentName>** noi:" followed by the sanitised content of the Message,
\* which the model identifies by the Message itself
NoMessage == Message(0, "none")
TopicPrompt(agent) ==
    [Kind |-> "topic", Topic |-> topic, Roster |-> agents, Agent |-> agent,
     Of |-> NoMessage]
Quoted(msg) ==
    [Kind |-> "quoted", Topic |-> "", Roster |-> <<>>, Agent |-> "none",
     Of |-> msg]
Continuation ==
    [Kind |-> "continuation", Topic |-> "", Roster |-> <<>>, Agent |-> "none",
     Of |-> NoMessage]

\* faulty variant: separators are quoted like any other Message
SkipsMessageNever(msg) == FALSE

\* buildContext: "if msg.AgentID == "system" { continue }"
SkipsMessage(msg) == msg.AgentID = "system"

\* buildContext: "for i, msg := range m.messages", each Message that is not
\* skipped is appended with Role "user"
RECURSIVE PreviousMessages(_)
PreviousMessages(log) ==
    IF log = <<>> THEN <<>>
    ELSE IF SkipsMessage(Head(log)) THEN PreviousMessages(Tail(log))
    ELSE <<ProviderMessage("user", Quoted(Head(log)))>>
            \o PreviousMessages(Tail(log))

\* buildContext(currentAgent), under the read lock
buildContext(agent) ==
    <<ProviderMessage("user", TopicPrompt(agent))>>
        \o PreviousMessages(messages)
        \o (IF Len(messages) > 0
            THEN <<ProviderMessage("user", Continuation)>>
            ELSE <<>>)

\* the event a turn opens its stream with
StartEvent(mid) == StreamMessage("start", mid)

\* buildContext, whose result Chat takes before this step ends (the request
\* body is built from it inside Chat), then the second critical section
\* "m.msgCounter++; msgID := msg_<counter>", then the start event, then
\* "respCh, err := currentAgent.Chat(ctx, ...)": Chat either fails at once
\* (no provider, request cannot be built), the turn sends an error event and
\* returns err, or it starts the provider goroutine
BeginTurn(w) ==
    /\ Quiet
    /\ pc[w] = "begin"
    /\ msgCounter' = msgCounter + 1
    /\ msgID' = [msgID EXCEPT ![w] = msgCounter + 1]
    /\ \E fails \in BOOLEAN :
        IF fails
        THEN /\ streamCh' = [streamCh EXCEPT ![w] =
                    <<StartEvent(msgCounter + 1), StreamMessage("error", 0)>>]
             /\ pc' = [pc EXCEPT ![w] = "ret"]
             /\ ret' = [ret EXCEPT ![w] = "chat failed"]
             /\ UNCHANGED prov
        ELSE /\ streamCh' = [streamCh EXCEPT ![w] = <<StartEvent(msgCounter + 1)>>]
             /\ prov' = [prov EXCEPT ![w] = "running"]
             /\ pc' = [pc EXCEPT ![w] = "loop"]
             /\ UNCHANGED ret
    /\ UNCHANGED <<agents, messages, topic, mode, currentIndex, isRunning,
                   isTurnInProgress, ctx, cancelled>>
    /\ UNCHANGED <<currentAgent, wctx, chatMessages, respCh, hvars, lastCall>>
    /\ UNCHANGED mu
    /\ UNCHANGED pvars

\* --------------------------------------------------- provider goroutine
\* number of chunk events this turn has forwarded: what fullContent holds
FullContent(w) ==
    Cardinality({i \in 1..Len(streamCh[w]) : streamCh[w][i].Type = "chunk"})

\* content chunks this response has produced so far
Produced(w) ==
    FullContent(w) + Cardinality({i \in 1..Len(respCh[w]) : respCh[w][i].Content})

\* the provider goroutine sends chunk on its channel; closes says whether it
\* then returns (deferred close(ch))
ProviderSend(w, chunk, closes) ==
    /\ Quiet
    /\ prov[w] = "running"
    /\ respCh' = [respCh EXCEPT ![w] = Append(@, chunk)]
    /\ prov' = [prov EXCEPT ![w] = IF closes THEN "closed" ELSE "running"]
    /\ UNCHANGED <<mvars, hvars, lastCall>>
    /\ UNCHANGED <<pc, currentAgent, wctx, chatMessages, msgID, streamCh, ret>>
    /\ UNCHANGED mu
    /\ UNCHANGED pvars

\* "ch <- StreamChunk{Content: content}": a frame that was read (possibly
\* out of the reader's buffer after the scope was cancelled) is forwarded
ProviderContent(w) ==
    /\ Produced(w) < MaxChunks
    /\ ProviderSend(w, StreamChunk(TRUE, FALSE, ErrNil), FALSE)

\* "ch <- StreamChunk{Done: true}; return"
ProviderDone(w) ==
    ProviderSend(w, StreamChunk(FALSE, TRUE, ErrNil), TRUE)

\* request failed / API error / read error that is not a cancellation
ProviderError(w) ==
    ProviderSend(w, StreamChunk(FALSE, FALSE, ErrOther), TRUE)

\* the request or the body read fails because the scope handed to
\* http.NewRequestWithContext was cancelled
ProviderCanceled(w) ==
    /\ wctx[w] \in cancelled
    /\ ProviderSend(w, StreamChunk(FALSE, FALSE, ErrCanceled), TRUE)

\* ------------------------------------------------ turn workers, the loop
\* faulty variant: the chunk is labelled from the shared counter
ChunkEventFromCounter(w) == StreamMessage("chunk", msgCounter)

\* the event a content chunk is forwarded as
ChunkEvent(w) == StreamMessage("chunk", msgID[w])

\* "chunk.Error == context.Canceled || strings.Contains(..., context canceled)"
IsCancellation(chunk) == chunk.Error = ErrCanceled

\* the events of one loop iteration: the chunk event, if the chunk has content
Forwarded(w, chunk) ==
    IF chunk.Content THEN Append(streamCh[w], ChunkEvent(w)) ELSE streamCh[w]

\* "if chunk.Error != nil": clear isTurnInProgress under the lock, then send
\* end (cancellation, return nil) or error (return chunk.Error)
ReceiveError(w) ==
    /\ Quiet
    /\ pc[w] = "loop"
    /\ Len(respCh[w]) > 0
    /\ Head(respCh[w]).Error # ErrNil
    /\ respCh' = [respCh EXCEPT ![w] = Tail(@)]
    /\ isTurnInProgress' = FALSE
    /\ IF IsCancellation(Head(respCh[w]))
       THEN /\ streamCh' = [streamCh EXCEPT ![w] =
                    Append(@, StreamMessage("end", msgID[w]))]
            /\ ret' = [ret EXCEPT ![w] = "nil"]
       ELSE /\ streamCh' = [streamCh EXCEPT ![w] =
                    Append(@, StreamMessage("error", 0))]
            /\ ret' = [ret EXCEPT ![w] = "stream failed"]
    /\ pc' = [pc EXCEPT ![w] = "ret"]
    /\ UNCHANGED <<agents, messages, topic, mode, currentIndex, isRunning,
                   ctx, cancelled, msgCounter>>
    /\ UNCHANGED <<currentAgent, wctx, chatMessages, msgID, prov, hvars,
                   lastCall>>
    /\ UNCHANGED mu
    /\ UNCHANGED pvars

\* a chunk without error and without Done: forward its content, keep looping
ReceiveContent(w) ==
    /\ Quiet
    /\ pc[w] = "loop"
    /\ Len(respCh[w]) > 0
    /\ Head(respCh[w]).Error = ErrNil
    /\ ~Head(respCh[w]).Done
    /\ respCh' = [respCh EXCEPT ![w] = Tail(@)]
    /\ streamCh' = [streamCh EXCEPT ![w] = Forwarded(w, Head(respCh[w]))]
    /\ UNCHANGED <<mvars, hvars, lastCall>>
    /\ UNCHANGED <<pc, currentAgent, wctx, chatMessages, msgID, prov, ret>>
    /\ UNCHANGED mu
    /\ UNCHANGED pvars

\* faulty variant: the new Message is put in front of the log
StoreMessagePrepended(log, m) == <<m>> \o log

\* "m.messages = append(m.messages, msg)"
StoreMessage(log, m) == Append(log, m)

\* "if chunk.Done { break }", then the third critical section: append the
\* Message and clear isTurnInProgress, then the end event, return nil
ReceiveDone(w) ==
    /\ Quiet
    /\ pc[w] = "loop"
    /\ Len(respCh[w]) > 0
    /\ Head(respCh[w]).Error = ErrNil
    /\ Head(respCh[w]).Done
    /\ respCh' = [respCh EXCEPT ![w] = Tail(@)]
    /\ messages' = StoreMessage(messages, Message(msgID[w], currentAgent[w]))
    /\ isTurnInProgress' = FALSE
    /\ streamCh' = [streamCh EXCEPT ![w] =
            Append(Forwarded(w, Head(respCh[w])), StreamMessage("end", msgID[w]))]
    /\ ret' = [ret EXCEPT ![w] = "nil"]
    /\ pc' = [pc EXCEPT ![w] = "ret"]
    /\ UNCHANGED <<agents, topic, mode, currentIndex, isRunning, ctx,
                   cancelled, msgCounter>>
    /\ freeFormTurn' = IF freeFormTurn = "turn" THEN "done" ELSE "none"
    /\ UNCHANGED <<currentAgent, wctx, chatMessages, msgID, prov, svars,
                   turnCount, lastCall>>
    /\ UNCHANGED mu
    /\ UNCHANGED pvars

\* the call returns to its caller, which closes streamCh; the locals of
\* the call are gone
WorkerReturn(w) ==
    /\ pc[w] = "ret"
    /\ pc' = [pc EXCEPT ![w] = "idle"]
    /\ currentAgent' = [currentAgent EXCEPT ![w] = "none"]
    /\ wctx' = [wctx EXCEPT ![w] = NoCtx]
    /\ chatMessages' = [chatMessages EXCEPT ![w] = <<>>]
    /\ msgID' = [msgID EXCEPT ![w] = 0]
    /\ respCh' = [respCh EXCEPT ![w] = <<>>]
    /\ prov' = [prov EXCEPT ![w] = "none"]
    /\ streamCh' = [streamCh EXCEPT ![w] = <<>>]
    /\ ret' = [ret EXCEPT ![w] = "none"]
    /\ stopInFlight' = [stopInFlight EXCEPT ![w] = FALSE]
    /\ stopStreaming' = [stopStreaming EXCEPT ![w] = FALSE]
    /\ startInFlight' = [startInFlight EXCEPT ![w] = FALSE]
    /\ cancelled' = Collect(cancelled, ctx, wctx')
    /\ UNCHANGED <<agents, messages, topic, mode, currentIndex, isRunning,
                   isTurnInProgress, ctx, msgCounter>>
    /\ UNCHANGED <<turnCount, freeFormTurn, lastCall>>
    /\ UNCHANGED mu
    /\ UNCHANGED pvars

\* ------------------------------------------------------------------- Next
Next ==
    \/ \E t \in Topics : Start(t)
    \/ \E t \in Topics : Continue(t)
    \/ Stop
    \/ Reset
    \/ CallReturns
    \/ \E w \in Workers : NextTurnCall(w)
    \/ \E w \in Workers, a \in RequestedIds : TurnByAgentCall(w, a)
    \/ \E w \in Workers : BeginTurn(w)
    \/ \E w \in Workers : ProviderContent(w)
    \/ \E w \in Workers : ProviderDone(w)
    \/ \E w \in Workers : ProviderError(w)
    \/ \E w \in Workers : ProviderCanceled(w)
    \/ \E w \in Workers : ReceiveError(w)
    \/ \E w \in Workers : ReceiveContent(w)
    \/ \E w \in Workers : ReceiveDone(w)
    \/ \E w \in Workers : WorkerReturn(w)

\* the session with a fixed roster and mode: Start, Continue, Stop, Reset
\* and two workers that race for turns
Spec == Init /\ [][Next]_vars

\* GetMessages(): the copy of the log goes to the caller
GetMessages ==
    /\ Quiet
    /\ lastCall' = [op |-> "GetMessages", arg |-> "", ret |-> "nil"]
    /\ UNCHANGED <<mvars, wvars, hvars, mu>>
    /\ UNCHANGED pvars

\* ------------------------------ NextTurn, statement by statement, with m.mu
\* the workers whose NextTurn call is followed statement by statement
LockWorkers == {"w1"}
\* the topics Continue is called with there
LockTopics == {"t1"}

\* faulty variant: the critical section is left without m.mu.Unlock()
UnlockMissing(w) == w

\* "m.mu.Unlock()" by worker w
Unlock(w) == "free"

\* the positions of NextTurn in front of a "m.mu.Lock()"
LockPcs == {"idle", "toCount", "toClear", "toStore"}

\* the position inside the critical section that Lock at position p opens
LockTarget(p) ==
    CASE p = "idle" -> "guards"
      [] p = "toCount" -> "count"
      [] p = "toClear" -> "clear"
      [] p = "toStore" -> "store"

\* what a statement of NextTurn other than those of a critical section
\* leaves alone
TurnLocal == <<mvars, hvars, lastCall, mu>>

\* "m.mu.Lock()": waits until the lock is free
Lock(w) ==
    /\ Quiet
    /\ pc[w] \in LockPcs
    /\ mu = "free"
    /\ mu' = w
    /\ pc' = [pc EXCEPT ![w] = LockTarget(pc[w])]
    /\ UNCHANGED <<mvars, hvars, lastCall>>
    /\ UNCHANGED <<currentAgent, wctx, chatMessages, msgID, respCh, prov,
                   streamCh, ret>>
    /\ UNCHANGED pvars

\* first critical section: the guards, each of which unlocks and returns,
\* then the flag, the speaker, "ctx := m.ctx" and "m.mu.Unlock()"
GuardsSection(w) ==
    /\ Quiet
    /\ pc[w] = "guards"
    /\ mu = w
    /\ mu' = Unlock(w)
    /\ IF GuardError # "nil"
       THEN Rejected(w, GuardError)
       ELSE /\ Admitted(w, PickSpeaker.agent)
            /\ currentIndex' = PickSpeaker.index
            /\ turnCount' = (turnCount + 1) % Len(agents)
            /\ freeFormTurn' = IF mode = ModeFreeForm THEN "turn" ELSE "none"
    /\ UNCHANGED pvars

\* "messages := m.buildContext(currentAgent)": takes and releases the read
\* lock, which no writer may hold
ReadContext(w) ==
    /\ Quiet
    /\ pc[w] = "begin"
    /\ mu = "free"
    /\ chatMessages' = [chatMessages EXCEPT ![w] = buildContext(currentAgent[w])]
    /\ pc' = [pc EXCEPT ![w] = "toCount"]
    /\ UNCHANGED TurnLocal
    /\ UNCHANGED <<currentAgent, wctx, msgID, respCh, prov, streamCh, ret>>
    /\ UNCHANGED pvars

\* second critical section: "m.msgCounter++; msgID := ...; m.mu.Unlock()"
CountSection(w) ==
    /\ Quiet
    /\ pc[w] = "count"
    /\ mu = w
    /\ mu' = Unlock(w)
    /\ msgCounter' = msgCounter + 1
    /\ msgID' = [msgID EXCEPT ![w] = msgCounter + 1]
    /\ pc' = [pc EXCEPT ![w] = "sendStart"]
    /\ UNCHANGED <<agents, messages, topic, mode, currentIndex, isRunning,
                   isTurnInProgress, ctx, cancelled>>
    /\ UNCHANGED <<currentAgent, wctx, chatMessages, respCh, prov, streamCh,
                   ret, hvars, lastCall>>
    /\ UNCHANGED pvars

\* "streamCh <- StreamMessage{Type: "start", ...}"
SendStart(w) ==
    /\ Quiet
    /\ pc[w] = "sendStart"
    /\ streamCh' = [streamCh EXCEPT ![w] = <<StartEvent(msgID[w])>>]
    /\ pc' = [pc EXCEPT ![w] = "chat"]
    /\ UNCHANGED TurnLocal
    /\ UNCHANGED <<currentAgent, wctx, chatMessages, msgID, respCh, prov, ret>>
    /\ UNCHANGED pvars

\* "respCh, err := currentAgent.Chat(ctx, messages, ...)": Chat takes the
\* context and fails at once or starts the provider goroutine
CallChat(w) ==
    /\ Quiet
    /\ pc[w] = "chat"
    /\ chatMessages' = [chatMessages EXCEPT ![w] = <<>>]
    /\ \E fails \in BOOLEAN :
        IF fails
        THEN /\ pc' = [pc EXCEPT ![w] = "sendChatError"]
             /\ UNCHANGED prov
        ELSE /\ prov' = [prov EXCEPT ![w] = "running"]
             /\ pc' = [pc EXCEPT ![w] = "recv"]
    /\ UNCHANGED TurnLocal
    /\ UNCHANGED <<currentAgent, wctx, msgID, respCh, streamCh, ret>>
    /\ UNCHANGED pvars

\* "if err != nil { streamCh <- StreamMessage{Type: "error"}; return err }"
SendChatError(w) ==
    /\ Quiet
    /\ pc[w] = "sendChatError"
    /\ streamCh' = [streamCh EXCEPT ![w] = Append(@, StreamMessage("error", 0))]
    /\ ret' = [ret EXCEPT ![w] = "chat failed"]
    /\ pc' = [pc EXCEPT ![w] = "ret"]
    /\ UNCHANGED TurnLocal
    /\ UNCHANGED <<currentAgent, wctx, chatMessages, msgID, respCh, prov>>
    /\ UNCHANGED pvars

\* "for chunk := range respCh": the chunk received stays at the head of
\* respCh[w] until the loop body is done with it
Receive(w) ==
    /\ Quiet
    /\ pc[w] = "recv"
    /\ Len(respCh[w]) > 0
    /\ LET chunk == Head(respCh[w])
       IN pc' = [pc EXCEPT ![w] =
                    IF chunk.Error # ErrNil THEN "toClear"
                    ELSE IF chunk.Content THEN "sendChunk"
                    ELSE "toStore"]
    /\ UNCHANGED TurnLocal
    /\ UNCHANGED <<currentAgent, wctx, chatMessages, msgID, respCh, prov,
                   streamCh, ret>>
    /\ UNCHANGED pvars

\* "if chunk.Error != nil": "m.isTurnInProgress = false" under the lock
ClearSection(w) ==
    /\ Quiet
    /\ pc[w] = "clear"
    /\ mu = w
    /\ mu' = Unlock(w)
    /\ isTurnInProgress' = FALSE
    /\ pc' = [pc EXCEPT ![w] = "sendTerminal"]
    /\ UNCHANGED <<agents, messages, topic, mode, currentIndex, isRunning,
                   ctx, cancelled, msgCounter>>
    /\ UNCHANGED <<currentAgent, wctx, chatMessages, msgID, respCh, prov,
                   streamCh, ret, hvars, lastCall>>
    /\ UNCHANGED pvars

\* the end event (cancellation, return nil) or the error event (return
\* chunk.Error) of a turn whose chunk carried an error
SendTerminal(w) ==
    /\ Quiet
    /\ pc[w] = "sendTerminal"
    /\ IF IsCancellation(Head(respCh[w]))
       THEN /\ streamCh' = [streamCh EXCEPT ![w] =
                    Append(@, StreamMessage("end", msgID[w]))]
            /\ ret' = [ret EXCEPT ![w] = "nil"]
       ELSE /\ streamCh' = [streamCh EXCEPT ![w] =
                    Append(@, StreamMessage("error", 0))]
            /\ ret' = [ret EXCEPT ![w] = "stream failed"]
    /\ respCh' = [respCh EXCEPT ![w] = Tail(@)]
    /\ pc' = [pc EXCEPT ![w] = "ret"]
    /\ UNCHANGED TurnLocal
    /\ UNCHANGED <<currentAgent, wctx, chatMessages, msgID, prov>>
    /\ UNCHANGED pvars

\* "if chunk.Content != "" { streamCh <- chunk event }", then
\* "if chunk.Done { break }"
SendChunk(w) ==
    /\ Quiet
    /\ pc[w] = "sendChunk"
    /\ streamCh' = [streamCh EXCEPT ![w] = Append(@, ChunkEvent(w))]
    /\ IF Head(respCh[w]).Done
       THEN /\ pc' = [pc EXCEPT ![w] = "toStore"]
            /\ UNCHANGED respCh
       ELSE /\ pc' = [pc EXCEPT ![w] = "recv"]
            /\ respCh' = [respCh EXCEPT ![w] = Tail(@)]
    /\ UNCHANGED TurnLocal
    /\ UNCHANGED <<currentAgent, wctx, chatMessages, msgID, prov, ret>>
    /\ UNCHANGED pvars

\* third critical section: the Message is appended, the flag cleared
StoreSection(w) ==
    /\ Quiet
    /\ pc[w] = "store"
    /\ mu = w
    /\ mu' = Unlock(w)
    /\ messages' = StoreMessage(messages, Message(msgID[w], currentAgent[w]))
    /\ isTurnInProgress' = FALSE
    /\ pc' = [pc EXCEPT ![w] = "sendEnd"]
    /\ freeFormTurn' = IF freeFormTurn = "turn" THEN "done" ELSE "none"
    /\ UNCHANGED <<agents, topic, mode, currentIndex, isRunning, ctx,
                   cancelled, msgCounter>>
    /\ UNCHANGED <<currentAgent, wctx, chatMessages, msgID, respCh, prov,
                   streamCh, ret, svars, turnCount, lastCall>>
    /\ UNCHANGED pvars

\* "streamCh <- StreamMessage{Type: "end", ...}; return nil"
SendEnd(w) ==
    /\ Quiet
    /\ pc[w] = "sendEnd"
    /\ streamCh' = [streamCh EXCEPT ![w] = Append(@, StreamMessage("end", msgID[w]))]
    /\ respCh' = [respCh EXCEPT ![w] = Tail(@)]
    /\ ret' = [ret EXCEPT ![w] = "nil"]
    /\ pc' = [pc EXCEPT ![w] = "ret"]
    /\ UNCHANGED TurnLocal
    /\ UNCHANGED <<currentAgent, wctx, chatMessages, msgID, prov>>
    /\ UNCHANGED pvars

\* the statements of one NextTurn call of worker w and the steps of its
\* provider goroutine
NextTurnStatements(w) ==
    \/ Lock(w)
    \/ GuardsSection(w)
    \/ ReadContext(w)
    \/ CountSection(w)
    \/ SendStart(w)
    \/ CallChat(w)
    \/ SendChatError(w)
    \/ ProviderContent(w)
    \/ ProviderDone(w)
    \/ ProviderError(w)
    \/ ProviderCanceled(w)
    \/ Receive(w)
    \/ ClearSection(w)
    \/ SendTerminal(w)
    \/ SendChunk(w)
    \/ StoreSection(w)
    \/ SendEnd(w)
    \/ WorkerReturn(w)

\* a Manager method that locks m.mu for all it does: it waits until the
\* lock is free
LockedCall(A) == mu = "free" /\ A

NextLock ==
    \/ \E t \in LockTopics : LockedCall(Continue(t))
    \/ LockedCall(Stop)
    \/ LockedCall(Reset)
    \/ \E md \in Modes : LockedCall(SetMode(md))
    \/ LockedCall(GetMessages)
    \/ CallReturns
    \/ \E w \in LockWorkers : NextTurnStatements(w)

\* one NextTurn call at a time, followed statement by statement, on a
\* session that Continue opens, next to the Manager methods that take the
\* lock while the turn runs
SpecLock == Init /\ [][NextLock]_vars

\* the steps of one NextTurn call of worker w and of its provider goroutine
NextTurnSteps(w) ==
    \/ NextTurnCall(w)
    \/ BeginTurn(w)
    \/ ProviderContent(w)
    \/ ProviderDone(w)
    \/ ProviderError(w)
    \/ ProviderCanceled(w)
    \/ ReceiveError(w)
    \/ ReceiveContent(w)
    \/ ReceiveDone(w)
    \/ WorkerReturn(w)

NextModes ==
    \/ \E t \in Topics : Start(t)
    \/ \E t \in Topics : Continue(t)
    \/ Stop
    \/ Reset
    \/ \E md \in Modes : SetMode(md)
    \/ CallReturns
    \/ \E w \in ModeWorkers : NextTurnSteps(w)

\* the session whose mode is switched at any time: Start, Continue, Stop,
\* Reset, SetMode and NextTurn calls that come one after the other
SpecModes == Init /\ [][NextModes]_vars

\* the rosters a reload installs while a session runs
ReloadRosters == {<<"a1">>, <<"a2", "a1">>, <<>>}

NextRoster ==
    \/ \E t \in Topics : Start(t)
    \/ Stop
    \/ Reset
    \/ \E r \in ReloadRosters : UpdateAgents(r)
    \/ CallReturns
    \/ \E w \in ModeWorkers : NextTurnSteps(w)

\* the session whose roster is reloaded at any time: Start, Stop, Reset,
\* UpdateAgents and NextTurn calls that come one after the other
SpecRoster == Init /\ [][NextRoster]_vars

NextCursor ==
    \/ \E t \in LockTopics : Start(t)
    \/ Stop
    \/ Reset
    \/ \E md \in Modes : SetMode(md)
    \/ \E r \in ReloadRosters : UpdateAgents(r)
    \/ CallReturns
    \/ \E w \in ModeWorkers : NextTurnSteps(w)

\* the session whose mode is switched and whose roster is reloaded at any
\* time, between and during NextTurn calls in either mode
SpecCursor == Init /\ [][NextCursor]_vars

\* --------------------------------------------------------------- Agent.Chat
\* the sampling options: fields of provider.Options and, under the same
\* names, of Agent.  Agent.Chat tests the first four with "> 0", the two
\* penalties with "!= 0"
PositiveOptions == {"Temperature", "MaxTokens", "TopP", "TopK"}
PenaltyOptions == {"FrequencyPenalty", "PresencePenalty"}
SamplingOptions == PositiveOptions \cup PenaltyOptions

\* the values an option is given in a call or in an agent's configuration
OptionValues(o) == IF o \in PenaltyOptions THEN {-1, 0} ELSE {0, 1}

\* what the caller of Agent.Chat wants for one option: nothing, or a value
Unset == [set |-> FALSE, value |-> 0]
Explicit(v) == [set |-> TRUE, value |-> v]
Wishes(o) == {Unset} \cup {Explicit(v) : v \in OptionValues(o)}

\* provider.Options as the caller writes it: a field the caller does not
\* mention holds the zero value of its type
Options(wish) == [o \in SamplingOptions |-> IF wish[o].set THEN wish[o].value ELSE 0]

\* the sampling fields of the agents that are called
NoDefaults == [o \in SamplingOptions |-> 0]
AllDefaults == [o \in SamplingOptions |-> IF o \in PenaltyOptions THEN -1 ELSE 1]
SomeDefaults == [o \in SamplingOptions |-> IF o \in {"Temperature", "TopK", "PresencePenalty"} THEN AllDefaults[o] ELSE 0]
AgentConfigs ==
    [SystemPrompt : {"", "sp"}, Provider : {"nil", "p"}, Model : {"m1"},
     Sampling : {NoDefaults, AllDefaults, SomeDefaults}]

\* the models a call names; "" leaves the choice to the agent
CallModels == {"", "m2"}

\* the context a caller passes to Agent.Chat
CallMessages == <<ProviderMessage("user", "hi")>>

\* "fullMessages": the system prompt, if the agent has one, then messages
fullMessages(a, msgs) ==
    (IF a.SystemPrompt # "" THEN <<ProviderMessage("system", a.SystemPrompt)>>
     ELSE <<>>) \o msgs

\* the tests "a.Temperature > 0" ... "a.PresencePenalty != 0"
AgentHas(a, o) ==
    IF o \in PenaltyOptions THEN a.Sampling[o] # 0 ELSE a.Sampling[o] > 0

\* "if opts.X == 0 && <a.X is set> { opts.X = a.X }" for every option
MergedOptions(a, opts) ==
    [o \in SamplingOptions |->
        IF opts[o] = 0 /\ AgentHas(a, o) THEN a.Sampling[o] ELSE opts[o]]

\* a call of Agent.Chat that has not run yet
InitAgentChat ==
    /\ NewManager
    /\ \E a \in AgentConfigs, md \in CallModels,
          wish \in [SamplingOptions -> UNION {Wishes(o) : o \in SamplingOptions}] :
          /\ \A o \in SamplingOptions : wish[o] \in Wishes(o)
          /\ agentCall = [state |-> "called", agent |-> a, wish |-> wish,
                          model |-> md, opts |-> Options(wish),
                          messages |-> CallMessages]
    /\ adapter = NotCalled
    /\ gateway = NotCalled
    /\ sanitizer = NotCalled
    /\ NoFrontEnd

\* Agent.Chat: without a provider the call fails; otherwise the provider's
\* Chat is called with fullMessages and the merged options
AgentChat ==
    /\ agentCall.state = "called"
    /\ agentCall' =
          IF agentCall.agent.Provider = "nil"
          THEN [agentCall EXCEPT !.state = "failed"]
          ELSE [agentCall EXCEPT
                   !.state = "delegated",
                   !.messages = fullMessages(agentCall.agent, @),
                   !.model = IF @ = "" THEN agentCall.agent.Model ELSE @,
                   !.opts = MergedOptions(agentCall.agent, @)]
    /\ UNCHANGED <<mvars, wvars, hvars, lastCall, mu>>
    /\ UNCHANGED <<adapter, gateway, sanitizer, uvars>>

NextAgentChat == AgentChat

\* Agent.Chat applied to every agent of AgentConfigs and every choice of
\* per-call options
SpecAgentChat == InitAgentChat /\ [][NextAgentChat]_vars

\* ------------------------------------------------------- provider adapters
\* the adapters; Grok, DeepSeek and Perplexity run the loop of OpenAI
\* without its content filter
ChoiceAdapters == {"OpenAI", "Grok", "DeepSeek", "Perplexity"}
Adapters == ChoiceAdapters \cup {"Ollama", "Gemini", "Anthropic"}

\* the lines of an upstream body.  Prefix: the line starts with "data: ";
\* Raw: what follows is nothing, some text that is no JSON, the text [DONE],
\* a JSON text cut short, or JSON of the upstream's shape
BlankLine == [Prefix |-> FALSE, Raw |-> "blank"]
CommentLine == [Prefix |-> FALSE, Raw |-> "text"]
DoneLine == [Prefix |-> TRUE, Raw |-> "[DONE]"]
GarbageLine == [Prefix |-> TRUE, Raw |-> "garbage"]
BareGarbageLine == [Prefix |-> FALSE, Raw |-> "garbage"]
DataLine(json) == [Prefix |-> TRUE, Raw |-> "json", Json |-> json]
BareLine(json) == [Prefix |-> FALSE, Raw |-> "json", Json |-> json]

\* delta texts: none, a plain one, and one that mentions thinking
PlainText == "x"
ThinkingText == "I was thinking"
DeltaTexts == {"", PlainText, ThinkingText}

\* openAIStreamResponse and its twins: Choices[0].Delta.Content and
\* Choices[0].FinishReason, or no choice at all
ChoiceLines ==
    {DataLine([Choices |-> <<>>])} \cup
    {DataLine([Choices |-> <<[Content |-> c, FinishReason |-> f]>>]) :
        c \in DeltaTexts, f \in {"", "stop"}}

\* ollamaStreamResponse: Message.Content and Done, one JSON text per line
OllamaLines ==
    {BareLine([Content |-> c, Done |-> d]) : c \in {"", PlainText}, d \in BOOLEAN}

\* geminiStreamResponse: Candidates[0].Content.Parts and FinishReason
GeminiLines ==
    {DataLine([Candidates |-> <<>>])} \cup
    {DataLine([Candidates |-> <<[Parts |-> ps, FinishReason |-> f]>>]) :
        ps \in {<<>>, <<PlainText>>, <<"", PlainText>>, <<PlainText, PlainText>>},
        f \in {"", "STOP"}}

\* anthropicStreamEvent: Type, Index, ContentBlock.Type, Delta.Text
BlockIndexes == {0, 1}
Event(type, index, block, text) ==
    DataLine([Type |-> type, Index |-> index, BlockType |-> block, Text |-> text])
AnthropicLines ==
    {Event("content_block_start", i, b, "") : i \in BlockIndexes, b \in {"thinking", "text"}} \cup
    {Event("content_block_stop", i, "", "") : i \in BlockIndexes} \cup
    {Event("content_block_delta", i, "", t) : i \in BlockIndexes, t \in {"", PlainText}} \cup
    {Event("message_stop", 0, "", ""), Event("ping", 0, "", "")}

\* the lines an upstream of each kind sends, well formed or not
Lines(kind) ==
    IF kind \in ChoiceAdapters THEN ChoiceLines \cup {BlankLine, CommentLine, DoneLine, GarbageLine}
    ELSE IF kind = "Ollama" THEN OllamaLines \cup {BlankLine, BareGarbageLine}
    ELSE IF kind = "Gemini" THEN GeminiLines \cup {BlankLine, GarbageLine}
    ELSE AnthropicLines \cup {BlankLine, GarbageLine}

\* the bodies of at most n lines of an upstream of this kind
RECURSIVE Bodies(_, _)
Bodies(kind, n) ==
    IF n = 0 THEN {<<>>}
    ELSE LET shorter == Bodies(kind, n - 1)
         IN shorter \cup {Append(b, l) : b \in {c \in shorter : Len(c) = n - 1},
                                        l \in Lines(kind)}

\* the chunks an adapter sends
ContentChunk(text) == StreamChunk(text, FALSE, ErrNil)
DoneChunk == StreamChunk("", TRUE, ErrNil)
ErrorChunk == StreamChunk("", FALSE, ErrOther)

\* what one turn of the read loop does: the chunks it sends, whether the
\* goroutine then returns, and the locals of the Anthropic loop
Turn(a, chunks, returns) ==
    [send |-> chunks, returns |-> returns,
     isThinkingBlock |-> a.isThinkingBlock,
     currentBlockIndex |-> a.currentBlockIndex]

\* "continue"
Skipped(a) == Turn(a, <<>>, FALSE)

\* faulty variant: a frame that does not decode ends the stream with an error
UndecodedAborts(a) == Turn(a, <<ErrorChunk>>, TRUE)

\* "if err := json.Unmarshal(...); err != nil { continue }"
Undecoded(a) == Skipped(a)

\* json.Unmarshal succeeds on the text behind the prefix
Unmarshals(line) == line.Raw = "json"

\* the filter of OpenAI.Chat on a delta: it mentions thinking or signature
LooksLikeThinking(content) == content = ThinkingText

\* the loop body of OpenAI.Chat (filtered) and of Grok.Chat, DeepSeek.Chat
\* and Perplexity.Chat (not filtered)
ChoiceTurn(a, line, filtered) ==
    IF line.Raw = "blank" \/ ~line.Prefix THEN Skipped(a)
    ELSE IF line.Raw = "[DONE]" THEN Turn(a, <<DoneChunk>>, TRUE)
    ELSE IF ~Unmarshals(line) THEN Undecoded(a)
    ELSE IF Len(line.Json.Choices) = 0 THEN Skipped(a)
    ELSE LET choice == line.Json.Choices[1]
             stop == choice.FinishReason = "stop"
         IN IF choice.Content # "" /\ filtered /\ LooksLikeThinking(choice.Content)
            THEN Skipped(a)
            ELSE Turn(a,
                      (IF choice.Content # "" THEN <<ContentChunk(choice.Content)>> ELSE <<>>)
                          \o (IF stop THEN <<DoneChunk>> ELSE <<>>),
                      stop)

\* the loop body of Ollama.Chat: the whole line is unmarshalled
OllamaTurn(a, line) ==
    IF line.Prefix \/ ~Unmarshals(line) THEN Undecoded(a)
    ELSE Turn(a,
              (IF line.Json.Content # "" THEN <<ContentChunk(line.Json.Content)>> ELSE <<>>)
                  \o (IF line.Json.Done THEN <<DoneChunk>> ELSE <<>>),
              line.Json.Done)

\* "for _, part := range candidate.Content.Parts": a chunk per part with text
RECURSIVE PartChunks(_)
PartChunks(parts) ==
    IF parts = <<>> THEN <<>>
    ELSE (IF Head(parts) # "" THEN <<ContentChunk(Head(parts))>> ELSE <<>>)
             \o PartChunks(Tail(parts))

\* the loop body of Gemini.Chat
GeminiTurn(a, line) ==
    IF line.Raw = "blank" \/ ~line.Prefix THEN Skipped(a)
    ELSE IF ~Unmarshals(line) THEN Undecoded(a)
    ELSE IF Len(line.Json.Candidates) = 0 THEN Skipped(a)
    ELSE LET candidate == line.Json.Candidates[1]
             stop == candidate.FinishReason = "STOP"
         IN Turn(a, PartChunks(candidate.Parts)
                        \o (IF stop THEN <<DoneChunk>> ELSE <<>>), stop)

\* the loop body of Anthropic.Chat: "switch event.Type"
AnthropicTurn(a, line) ==
    IF line.Raw = "blank" \/ ~line.Prefix THEN Skipped(a)
    ELSE IF ~Unmarshals(line) THEN Undecoded(a)
    ELSE LET event == line.Json
         IN CASE event.Type = "content_block_start" ->
                   [send |-> <<>>, returns |-> FALSE,
                    isThinkingBlock |-> event.BlockType = "thinking",
                    currentBlockIndex |-> event.Index]
              [] event.Type = "content_block_stop" ->
                   [send |-> <<>>, returns |-> FALSE,
                    isThinkingBlock |->
                        IF event.Index = a.currentBlockIndex THEN FALSE
                        ELSE a.isThinkingBlock,
                    currentBlockIndex |-> a.currentBlockIndex]
              [] event.Type = "content_block_delta" ->
                   IF ~a.isThinkingBlock /\ event.Text # ""
                   THEN Turn(a, <<ContentChunk(event.Text)>>, FALSE)
                   ELSE Skipped(a)
              [] event.Type = "message_stop" -> Turn(a, <<DoneChunk>>, TRUE)
              [] OTHER -> Skipped(a)

\* the loop body of the adapter of this kind
LoopTurn(a, line) ==
    IF a.kind = "OpenAI" THEN ChoiceTurn(a, line, TRUE)
    ELSE IF a.kind \in ChoiceAdapters THEN ChoiceTurn(a, line, FALSE)
    ELSE IF a.kind = "Ollama" THEN OllamaTurn(a, line)
    ELSE IF a.kind = "Gemini" THEN GeminiTurn(a, line)
    ELSE AnthropicTurn(a, line)

\* faulty variant: the end of the body ends the stream without a Done
AtEOFSilent == <<>>

\* "if err == io.EOF { ch <- StreamChunk{Done: true}; return }"
AtEOF == <<DoneChunk>>

\* a call of Chat whose goroutine has not run yet: isThinkingBlock := false,
\* currentBlockIndex := -1
NewAdapter(kind, http, body, ends) ==
    [state |-> "request", kind |-> kind, http |-> http, body |-> body,
     ends |-> ends, pos |-> 0, ch |-> <<>>,
     isThinkingBlock |-> FALSE, currentBlockIndex |-> -1]

\* the goroutine of Chat about to call client.Do, for every adapter and
\* every upstream answer: no answer, a status other than 200, or a body of
\* at most MaxLines lines that ends or breaks off
InitAdapter ==
    /\ NewManager
    /\ agentCall = NotCalled
    /\ \E kind \in Adapters :
          \/ \E http \in {"failed", "status"} :
                adapter = NewAdapter(kind, http, <<>>, "EOF")
          \/ \E body \in Bodies(kind, MaxLines), ends \in {"EOF", "read error"} :
                adapter = NewAdapter(kind, "ok", body, ends)
    /\ gateway = NotCalled
    /\ sanitizer = NotCalled
    /\ NoFrontEnd

AdapterLocal ==
    <<mvars, wvars, hvars, lastCall, mu, agentCall, gateway, sanitizer, uvars>>

\* "resp, err := client.Do(req)" and the status check
AdapterRequest ==
    /\ adapter.state = "request"
    /\ adapter' =
          IF adapter.http = "ok"
          THEN [adapter EXCEPT !.state = "reading"]
          ELSE [adapter EXCEPT !.state = "closed", !.ch = Append(@, ErrorChunk)]
    /\ UNCHANGED AdapterLocal

\* one turn of the read loop on a line that was read whole
AdapterReadLine ==
    /\ adapter.state = "reading"
    /\ adapter.pos < Len(adapter.body)
    /\ LET turn == LoopTurn(adapter, adapter.body[adapter.pos + 1])
       IN adapter' = [adapter EXCEPT
                         !.pos = @ + 1,
                         !.ch = @ \o turn.send,
                         !.state = IF turn.returns THEN "closed" ELSE "reading",
                         !.isThinkingBlock = turn.isThinkingBlock,
                         !.currentBlockIndex = turn.currentBlockIndex]
    /\ UNCHANGED AdapterLocal

\* the read fails: the body is at its end, or the connection broke
AdapterReadFails ==
    /\ adapter.state = "reading"
    /\ adapter.pos = Len(adapter.body)
    /\ adapter' = [adapter EXCEPT
                      !.state = "closed",
                      !.ch = @ \o (IF adapter.ends = "EOF" THEN AtEOF
                                   ELSE <<ErrorChunk>>)]
    /\ UNCHANGED AdapterLocal

NextAdapter ==
    \/ AdapterRequest
    \/ AdapterReadLine
    \/ AdapterReadFails

\* the goroutine of every adapter's Chat on every upstream answer
SpecAdapter == InitAdapter /\ [][NextAdapter]_vars

\* ------------------------------------------------------------ the gateway
\* texts are sequences of characters, so that WriteString is concatenation
Hel == <<"H", "e", "l">>
lo == <<"l", "o">>
ChunkContents == {Hel, lo}

\* the streams of at most n content chunks an adapter sends before its
\* terminal item
RECURSIVE ContentRuns(_)
ContentRuns(n) ==
    IF n = 0 THEN {<<>>}
    ELSE LET shorter == ContentRuns(n - 1)
         IN shorter \cup {Append(r, ContentChunk(c)) :
                             r \in {q \in shorter : Len(q) = n - 1},
                             c \in ChunkContents}
AdapterStreams ==
    {r \o <<t>> : r \in ContentRuns(MaxStream), t \in {DoneChunk, ErrorChunk}}

\* the frames and bodies the Proxy writes
DeltaFrame(content) ==
    [Object |-> "chat.completion.chunk", Content |-> content, FinishReason |-> ""]
FinishFrame ==
    [Object |-> "chat.completion.chunk", Content |-> <<>>, FinishReason |-> "stop"]
DoneFrame == [Object |-> "[DONE]", Content |-> <<>>, FinishReason |-> ""]
ErrorFrame == [Object |-> "error", Content |-> <<>>, FinishReason |-> ""]
Completion(content) ==
    [Object |-> "chat.completion", Role |-> "assistant", Content |-> content,
     FinishReason |-> "stop"]
ErrorBody == [Object |-> "error", Role |-> "", Content |-> <<>>, FinishReason |-> ""]

\* p.respondError: status 500 and a JSON error body
respondError(g) ==
    [g EXCEPT !.state = "done", !.status = 500, !.body = <<ErrorBody>>]

\* faulty variant: the collected text is the content of the last chunk
CollectedLast(full, chunk) == chunk.Content

\* "fullContent.WriteString(chunk.Content)"
Collected(full, chunk) == full \o chunk.Content

\* a completion request that has reached its handler: stream is the flag of
\* the request, flusher whether the ResponseWriter can flush, chatErr whether
\* prov.Chat fails at once, ch what the adapter sends otherwise
InitGateway ==
    /\ NewManager
    /\ agentCall = NotCalled
    /\ adapter = NotCalled
    /\ \E stream \in BOOLEAN, flusher \in BOOLEAN, chatErr \in BOOLEAN,
          ch \in AdapterStreams :
          gateway = [state |-> "request", stream |-> stream,
                     flusher |-> flusher, chatErr |-> chatErr, ch |-> ch,
                     rd |-> 0, fullContent |-> <<>>, status |-> 0,
                     frames |-> <<>>, body |-> <<>>]
    /\ sanitizer = NotCalled
    /\ NoFrontEnd

GatewayLocal ==
    <<mvars, wvars, hvars, lastCall, mu, agentCall, adapter, sanitizer, uvars>>

\* the handlers up to their loop: the flusher test of the streaming handler
\* and "streamCh, err := prov.Chat(ctx, messages, opts)"
GatewayChat ==
    /\ gateway.state = "request"
    /\ gateway' =
          IF (gateway.stream /\ ~gateway.flusher) \/ gateway.chatErr
          THEN respondError(gateway)
          ELSE [gateway EXCEPT !.state = "serving", !.status = 200]
    /\ UNCHANGED GatewayLocal

\* one turn of "for chunk := range streamCh" of handleStreamingResponse
StreamingTurn(g, chunk) ==
    IF chunk.Error # ErrNil
    THEN [g EXCEPT !.state = "done", !.rd = @ + 1,
                   !.frames = Append(@, ErrorFrame)]
    ELSE IF chunk.Done
    THEN [g EXCEPT !.state = "done", !.rd = @ + 1,
                   !.frames = @ \o <<FinishFrame, DoneFrame>>]
    ELSE IF chunk.Content # ""
    THEN [g EXCEPT !.rd = @ + 1, !.frames = Append(@, DeltaFrame(chunk.Content))]
    ELSE [g EXCEPT !.rd = @ + 1]

\* one turn of the loop of handleNonStreamingResponse; after the loop the
\* completion is written
NonStreamingTurn(g, chunk) ==
    IF chunk.Error # ErrNil
    THEN [respondError(g) EXCEPT !.rd = @ + 1]
    ELSE LET full == IF chunk.Content # "" THEN Collected(g.fullContent, chunk)
                     ELSE g.fullContent
         IN IF chunk.Done
            THEN [g EXCEPT !.state = "done", !.rd = @ + 1, !.fullContent = full,
                           !.body = <<Completion(full)>>]
            ELSE [g EXCEPT !.rd = @ + 1, !.fullContent = full]

\* the handler receives the next item of the adapter's channel, or finds the
\* channel closed and empty
GatewayReceive ==
    /\ gateway.state = "serving"
    /\ gateway' =
          IF gateway.rd < Len(gateway.ch)
          THEN IF gateway.stream
               THEN StreamingTurn(gateway, gateway.ch[gateway.rd + 1])
               ELSE NonStreamingTurn(gateway, gateway.ch[gateway.rd + 1])
          ELSE IF gateway.stream
               THEN [gateway EXCEPT !.state = "done"]
               ELSE [gateway EXCEPT !.state = "done",
                                    !.body = <<Completion(gateway.fullContent)>>]
    /\ UNCHANGED GatewayLocal

NextGateway ==
    \/ GatewayChat
    \/ GatewayReceive

\* both handlers of the Proxy on every stream of AdapterStreams
SpecGateway == InitGateway /\ [][NextGateway]_vars

\* ---------------------------------------------------------- the sanitizer
\* texts are sequences over this alphabet: a letter, a space, a line break,
\* the two braces, the word "thinking", and the tags <thinking> and
\* </thinking>, each tag one symbol.  No text over it holds a quote, a colon,
\* an equals sign, a bracket or the word "signature", so of the nine
\* patterns only thinkingBlockRegex and anyThinkingTagRegex can match, and
\* the loop over [thinking] finds nothing
Letter == "a"
Space == " "
LineBreak == "\n"
OpenBrace == "{"
CloseBrace == "}"
ThinkingWord == "thinking"
OpenTag == "<thinking>"
CloseTag == "</thinking>"
Symbols == {Letter, Space, LineBreak, OpenBrace, CloseBrace, ThinkingWord,
            OpenTag, CloseTag}

\* the texts of at most n symbols
RECURSIVE Texts(_)
Texts(n) ==
    IF n = 0 THEN {<<>>}
    ELSE LET shorter == Texts(n - 1)
         IN shorter \cup {Append(t, c) : t \in {u \in shorter : Len(u) = n - 1},
                                        c \in Symbols}

\* thinkingBlockRegex.ReplaceAllString(result, ""): from the left, an opening
\* tag and everything up to the closing tag nearest behind it are removed
RECURSIVE RemoveThinkingBlocks(_)
RemoveThinkingBlocks(text) ==
    IF text = <<>> THEN <<>>
    ELSE LET closes == {j \in 2..Len(text) : text[j] = CloseTag}
         IN IF Head(text) = OpenTag /\ closes # {}
            THEN LET j == CHOOSE k \in closes : \A m \in closes : k <= m
                 IN RemoveThinkingBlocks(SubSeq(text, j + 1, Len(text)))
            ELSE <<Head(text)>> \o RemoveThinkingBlocks(Tail(text))

\* anyThinkingTagRegex.ReplaceAllString(result, "")
RemoveThinkingTags(text) ==
    SelectSeq(text, LAMBDA c : c \notin {OpenTag, CloseTag})

\* strings.Split(result, "\n")
RECURSIVE Split(_)
Split(text) ==
    IF \A i \in 1..Len(text) : text[i] # LineBreak THEN <<text>>
    ELSE LET i == CHOOSE k \in 1..Len(text) :
                      text[k] = LineBreak /\ \A m \in 1..(k - 1) : text[m] # LineBreak
         IN <<SubSeq(text, 1, i - 1)>> \o Split(SubSeq(text, i + 1, Len(text)))

\* strings.Join(cleanLines, "\n")
RECURSIVE Join(_)
Join(lines) ==
    IF lines = <<>> THEN <<>>
    ELSE IF Len(lines) = 1 THEN lines[1]
    ELSE lines[1] \o <<LineBreak>> \o Join(Tail(lines))

\* strings.TrimSpace
RECURSIVE TrimSpace(_)
TrimSpace(text) ==
    IF text = <<>> THEN <<>>
    ELSE IF Head(text) \in {Space, LineBreak} THEN TrimSpace(Tail(text))
    ELSE IF text[Len(text)] \in {Space, LineBreak}
    THEN TrimSpace(SubSeq(text, 1, Len(text) - 1))
    ELSE text

\* the two "continue" of the line loop: a line that is empty or a lone brace
\* once trimmed, and a line that holds a marker
DropsLine(line) ==
    \/ TrimSpace(line) \in {<<>>, <<OpenBrace>>, <<CloseBrace>>}
    \/ \E i \in 1..Len(line) : line[i] \in {ThinkingWord, OpenTag, CloseTag}

\* the lines that are kept, each as it was
KeptLines(lines) == SelectSeq(lines, LAMBDA l : ~DropsLine(l))

\* strings.ReplaceAll(result, "{}", ""): one pass from the left
RECURSIVE RemoveEmptyBraces(_)
RemoveEmptyBraces(text) ==
    IF Len(text) < 2 THEN text
    ELSE IF text[1] = OpenBrace /\ text[2] = CloseBrace
    THEN RemoveEmptyBraces(SubSeq(text, 3, Len(text)))
    ELSE <<Head(text)>> \o RemoveEmptyBraces(Tail(text))

\* cleanMessageContent
cleanMessageContent(content) ==
    IF content = <<>> THEN <<>>
    ELSE LET tagless == RemoveThinkingTags(RemoveThinkingBlocks(content))
             joined == TrimSpace(Join(KeptLines(Split(tagless))))
         IN TrimSpace(RemoveEmptyBraces(joined))

\* a text that has not been cleaned yet
InitSanitizer ==
    /\ NewManager
    /\ agentCall = NotCalled
    /\ adapter = NotCalled
    /\ gateway = NotCalled
    /\ \E text \in Texts(MaxText) :
          sanitizer = [state |-> "text", raw |-> text, content |-> text,
                       cleanings |-> 0]
    /\ NoFrontEnd

\* "cleanedContent := cleanMessageContent(rawContent)" when a turn stores
\* its Message, "content := cleanMessageContent(msg.Content)" whenever a
\* later turn builds its context from it
Clean ==
    /\ sanitizer.state = "text"
    /\ sanitizer.cleanings < MaxCleanings
    /\ sanitizer' = [sanitizer EXCEPT
                        !.content = cleanMessageContent(@),
                        !.cleanings = @ + 1]
    /\ UNCHANGED <<mvars, wvars, hvars, lastCall, mu>>
    /\ UNCHANGED <<agentCall, adapter, gateway, uvars>>

NextSanitizer == Clean

\* cleanMessageContent applied, up to MaxCleanings times, to every text of
\* at most MaxText symbols
SpecSanitizer == InitSanitizer /\ [][NextSanitizer]_vars

\* ------------------------------------------------ the context of a turn
\* the logs of at most n Messages that turns and Continue can leave: ids in
\* the order of the counter, authors agents or, behind the first Message,
\* the separator author
RECURSIVE Logs(_)
Logs(n) ==
    IF n = 0 THEN {<<>>}
    ELSE Logs(n - 1) \cup
         {Append(log, Message(n, a)) :
            log \in {l \in Logs(n - 1) : Len(l) = n - 1},
            a \in IF n = 1 THEN AgentIds ELSE AgentIds \cup {"system"}}

\* a running session whose log some directed turns and Continue calls left
InitContext ==
    /\ agents = InitAgents
    /\ messages \in Logs(MaxLog)
    /\ topic \in Topics
    /\ mode = ModeRoundRobin
    /\ currentIndex = 0
    /\ isRunning = TRUE
    /\ isTurnInProgress = FALSE
    /\ ctx = WithCancelFirst
    /\ cancelled = {}
    /\ msgCounter = Len(messages)
    /\ pc = [w \in Workers |-> "idle"]
    /\ currentAgent = [w \in Workers |-> "none"]
    /\ wctx = [w \in Workers |-> NoCtx]
    /\ chatMessages = [w \in Workers |-> <<>>]
    /\ msgID = [w \in Workers |-> 0]
    /\ respCh = [w \in Workers |-> <<>>]
    /\ prov = [w \in Workers |-> "none"]
    /\ streamCh = [w \in Workers |-> <<>>]
    /\ ret = [w \in Workers |-> "none"]
    /\ stopInFlight = [w \in Workers |-> FALSE]
    /\ stopStreaming = [w \in Workers |-> FALSE]
    /\ startInFlight = [w \in Workers |-> FALSE]
    /\ turnCount = 0
    /\ freeFormTurn = "none"
    /\ lastCall = NoCall
    /\ mu = "free"
    /\ agentCall = NotCalled
    /\ adapter = NotCalled
    /\ gateway = NotCalled
    /\ sanitizer = NotCalled
    /\ NoFrontEnd

\* "chatMessages := m.buildContext(currentAgent)" for the agent a turn of
\* worker w was given
BuildContext(w, agent) ==
    /\ chatMessages[w] = <<>>
    /\ currentAgent' = [currentAgent EXCEPT ![w] = agent]
    /\ chatMessages' = [chatMessages EXCEPT ![w] = buildContext(agent)]
    /\ UNCHANGED <<mvars, hvars, lastCall>>
    /\ UNCHANGED <<pc, wctx, msgID, respCh, prov, streamCh, ret>>
    /\ UNCHANGED mu
    /\ UNCHANGED pvars

NextContext == \E w \in Workers, agent \in AgentIds : BuildContext(w, agent)

\* buildContext applied to every log of at most MaxLog Messages
SpecContext == InitContext /\ [][NextContext]_vars

TypeOK ==
    /\ isRunning \in BOOLEAN
    /\ isTurnInProgress \in BOOLEAN
    /\ ctx \in CtxIds \cup {NoCtx}
    /\ cancelled \subseteq CtxIds
    /\ msgCounter \in 0..MaxMsgCounter
    /\ mode \in Modes
    /\ mu \in Workers \cup {"free"}
    /\ turnCount \in 0..MaxMsgCounter

\* ----------------------------------------------------------------- claims
\* a call of worker w that passed the guards has returned
TurnReturned(w) == pc[w] = "ret" /\ streamCh[w] # <<>>
\* a call of worker w that a guard rejected has returned
CallRejected(w) == pc[w] = "ret" /\ streamCh[w] = <<>>

\* C1: at most one turn is in flight at any time, and a call that arrives
\* while another turn is in flight on the running session is rejected with
\* "a turn is already in progress" and returns at once (it is not queued)
C1_OneTurnInFlight ==
    /\ Cardinality({w \in Workers : InFlight(w)}) <= 1
    /\ \A w \in Workers :
        (pc[w] = "ret" /\ isRunning /\ \E v \in Workers \ {w} : InFlight(v))
            => (CallRejected(w) /\ ret[w] = "a turn is already in progress")

\* C1 witness: a call lost the race against a turn that is in flight
C1_Witness ==
    \E w \in Workers :
        /\ CallRejected(w)
        /\ ret[w] = "a turn is already in progress"
        /\ \E v \in Workers \ {w} : InFlight(v)

\* the events of a turn so far: a start, then chunks that carry the id of
\* the start, and a terminal event in the last position at most
EventsInOrder(s) ==
    Len(s) > 0 =>
        /\ s[1].Type = "start"
        /\ \A i \in 2..Len(s) :
            \/ s[i].Type = "chunk" /\ s[i].MessageID = s[1].MessageID
            \/ i = Len(s) /\ s[i].Type \in {"end", "error"}

\* C2: the events of a turn are one start, then chunks with the id of the
\* start, then exactly one terminal event (end or error) and nothing after
\* it: while the turn runs no terminal event was sent, and when it returns
\* the last event, and only the last, is terminal
C2_EventOrder ==
    \A w \in Workers :
        /\ EventsInOrder(streamCh[w])
        /\ pc[w] = "loop" =>
            (Len(streamCh[w]) > 0 /\ Last(streamCh[w]).Type \in {"start", "chunk"})
        /\ TurnReturned(w) =>
            (Len(streamCh[w]) >= 2 /\ Last(streamCh[w]).Type \in {"end", "error"})

\* C2 witness: a turn returned after start, chunk, end
C2_Witness ==
    \E w \in Workers :
        /\ TurnReturned(w)
        /\ Len(streamCh[w]) = 3
        /\ streamCh[w][2].Type = "chunk"
        /\ streamCh[w][3].Type = "end"

\* C3: when a turn ends with an error event, turn-in-progress is false
\* afterwards and the running flag is as it was
C3_ErrorClearsTurn ==
    [][\A w \in Workers :
        (pc[w] # "ret" /\ pc'[w] = "ret" /\ Len(streamCh'[w]) > 0
            /\ Last(streamCh'[w]).Type = "error")
        => (~isTurnInProgress' /\ isRunning' = isRunning)]_vars

\* C4: a turn during whose streaming Stop was called ends with an end
\* event, never with an error event
C4_StopEndsWithEnd ==
    \A w \in Workers :
        (TurnReturned(w) /\ stopStreaming[w]) => Last(streamCh[w]).Type = "end"

\* C5: a turn during whose streaming Stop was called appends no Message
C5_StopAppendsNothing ==
    [][\A w \in Workers :
        (stopStreaming[w] /\ pc[w] = "loop" /\ pc'[w] = "ret")
        => messages' = messages]_vars

\* C6: after Stop or Reset was called while a turn was in flight, the scope
\* this turn handed to its upstream call is cancelled
C6_StopCancelsTurnScope ==
    \A w \in Workers :
        (stopInFlight[w] /\ InFlight(w)) => wctx[w] \in cancelled

\* C7 as stated in the specification: turn-in-progress implies running
C7_TurnImpliesRunning == isTurnInProgress => isRunning

\* C7: turn-in-progress is only ever set while the session is running: a
\* step that sets it is taken with running true and leaves running true
C7_TurnSetOnlyWhileRunning ==
    [][(~isTurnInProgress /\ isTurnInProgress') => (isRunning /\ isRunning')]_vars

\* C7 witness: a call passed the guards of the running session
C7_Witness ==
    \E w \in Workers : pc[w] = "begin" /\ isTurnInProgress /\ isRunning

\* C8 as stated in the specification: the handle is non-nil iff running
C8_HandleIffRunning == (ctx # NoCtx) <=> isRunning

\* C8: while the session is running the handle is non-nil and not
\* cancelled; while it is not running the handle is nil (never started) or
\* non-nil and cancelled
C8_HandleLiveIffRunning ==
    /\ isRunning => (ctx # NoCtx /\ ctx \notin cancelled)
    /\ ~isRunning => (ctx = NoCtx \/ ctx \in cancelled)

\* C8 witness: Stop returned, the handle is still there and is cancelled
C8_Witness ==
    /\ lastCall.op = "Stop"
    /\ ~isRunning
    /\ ctx # NoCtx
    /\ ctx \in cancelled

\* a step in which Start returns
StartReturns == lastCall = NoCall /\ lastCall'.op = "Start"

\* C9: Start on a running session fails with the already-running error and
\* leaves topic, log, cursor, counter, running flag and scope unchanged
C9_StartWhileRunning ==
    [][(StartReturns /\ isRunning)
        => /\ lastCall'.ret = "debate is already running"
           /\ UNCHANGED <<topic, messages, currentIndex, msgCounter,
                          isRunning, ctx, cancelled>>]_vars

\* C9 witness: Start with another topic was rejected on a session with a
\* non-empty log
C9_Witness ==
    /\ lastCall.op = "Start"
    /\ lastCall.ret = "debate is already running"
    /\ lastCall.arg # topic
    /\ isRunning
    /\ Len(messages) > 0

\* C10: a successful Start leaves the session running with the given topic,
\* an empty log, cursor 0 and a scope that nobody held before and that is
\* not cancelled
C10_StartSucceeds ==
    [][(StartReturns /\ lastCall'.ret = "nil")
        => /\ isRunning'
           /\ topic' = lastCall'.arg
           /\ messages' = <<>>
           /\ currentIndex' = 0
           /\ ctx' # NoCtx
           /\ ctx' \notin ReferencedCtx(ctx, wctx)
           /\ ctx' \notin cancelled']_vars

\* C10 witness: Start succeeded on a stopped session whose last turn still
\* holds the cancelled scope of that session
C10_Witness ==
    /\ lastCall.op = "Start"
    /\ lastCall.ret = "nil"
    /\ isRunning
    /\ messages = <<>>
    /\ \E w \in Workers : InFlight(w) /\ wctx[w] \in cancelled

\* C11: when a successful Start returns, and no turn of an earlier session
\* is still in flight, the message counter is 0, so that the first id the
\* new session allocates is msg_1
C11_StartResetsCounter ==
    (/\ lastCall.op = "Start"
     /\ lastCall.ret = "nil"
     /\ \A w \in Workers : pc[w] = "idle")
        => msgCounter = 0

\* s is a prefix of t
IsPrefix(s, t) == Len(s) <= Len(t) /\ SubSeq(t, 1, Len(s)) = s

\* a step in which Continue returns
ContinueReturns == lastCall = NoCall /\ lastCall'.op = "Continue"

\* C12: Continue never fails; it keeps the log as a prefix, appends exactly
\* one separator of the system author if the log was non-empty and nothing
\* if it was empty, sets the topic to its argument and leaves the session
\* running
C12_ContinueKeepsLog ==
    [][ContinueReturns
        => /\ lastCall'.ret = "nil"
           /\ IsPrefix(messages, messages')
           /\ IF messages # <<>>
              THEN /\ Len(messages') = Len(messages) + 1
                   /\ Last(messages').AgentID = "system"
              ELSE messages' = <<>>
           /\ topic' = lastCall'.arg
           /\ isRunning']_vars

\* C12 witness: Continue with a new topic returned on a session that was
\* not running before some turn stored a message: the log ends with the
\* separator behind that message
C12_Witness ==
    /\ lastCall.op = "Continue"
    /\ lastCall.ret = "nil"
    /\ Len(messages) = 2
    /\ messages[1].AgentID \in AgentIds
    /\ Last(messages).AgentID = "system"
    /\ topic = lastCall.arg

\* C13: when Reset returns the session is not running, the scope the
\* Manager holds (if it ever got one) is cancelled, and the log, the topic,
\* the cursor and the message counter are cleared
C13_ResetClears ==
    lastCall.op = "Reset"
        => /\ ~isRunning
           /\ ctx # NoCtx => ctx \in cancelled
           /\ messages = <<>>
           /\ topic = ""
           /\ currentIndex = 0
           /\ msgCounter = 0

\* C13 witness: Reset returned while a turn that had taken a message id was
\* streaming under the scope of the session
C13_Witness ==
    /\ lastCall.op = "Reset"
    /\ ctx # NoCtx
    /\ \E w \in Workers : pc[w] = "loop" /\ wctx[w] = ctx /\ msgID[w] > 0

C17_LogAppendOnly ==
    [][\/ lastCall = NoCall /\ lastCall'.op \in {"Start", "Reset"}
       \/ IsPrefix(messages, messages')]_vars

\* C17 witness: a turn stored its Message behind the one the log had
C17_Witness ==
    \E w \in Workers :
        /\ TurnReturned(w)
        /\ ret[w] = "nil"
        /\ Len(messages) = 2
        /\ Last(messages) = Message(msgID[w], currentAgent[w])
        /\ messages[1] # Last(messages)

\* a step in which worker w's NextTurn call passes the guards
NextTurnAdmitted(w) == pc[w] = "idle" /\ pc'[w] = "begin" /\ NextTurnCall(w)

\* C14: in round-robin mode the k-th NextTurn call that passes the guards
\* (k = 0, 1, ... counted from the Start, or the Reset, that opened the
\* session) is given to roster[k mod N]
C14_RoundRobin ==
    [][\A w \in Workers :
        (NextTurnAdmitted(w) /\ mode = ModeRoundRobin)
            => currentAgent'[w] = agents[turnCount + 1]]_vars

\* C14 witness: with two agents a call was given to the second agent behind
\* the Message of the first, and the count of calls is back at 0 mod 2
C14_Witness ==
    \E w \in Workers :
        /\ pc[w] = "begin"
        /\ turnCount = 0
        /\ currentIndex = 0
        /\ currentAgent[w] = agents[2]
        /\ Len(messages) = 1
        /\ messages[1].AgentID = agents[1]

\* the author of the last Message of the log that is no separator
LastSpeaker ==
    LET spoken == {i \in 1..Len(messages) : messages[i].AgentID # "system"}
    IN IF spoken = {} THEN "none"
       ELSE messages[CHOOSE i \in spoken : \A j \in spoken : j <= i].AgentID

\* C15: in free-form mode with at least two agents, a NextTurn call that
\* passes the guards is not given to the speaker of the turn before it,
\* the author of the last Message that turns have stored
C15_FreeFormAlternates ==
    [][\A w \in Workers :
        (/\ NextTurnAdmitted(w)
         /\ mode = ModeFreeForm
         /\ Len(agents) >= 2
         /\ LastSpeaker # "none")
        => currentAgent'[w] # LastSpeaker]_vars

\* C18: the ids of the Messages in the log are strictly increasing in log
\* order
C18_IdsIncreasing ==
    \A i \in 1..(Len(messages) - 1) : messages[i].ID < messages[i + 1].ID

\* the Messages of the log that are no separators, in log order
Spoken == SelectSeq(messages, LAMBDA m : m.AgentID # "system")

\* C19: the context built for a turn has only entries of role user: first
\* the topic prompt, then one entry for every Message of the log that is no
\* separator, in log order, and the continuation instruction as last entry
\* if and only if the log is not empty
C19_ContextEntries ==
    \A w \in Workers :
        chatMessages[w] # <<>> =>
            LET c == chatMessages[w]
                n == Len(Spoken)
            IN /\ \A i \in 1..Len(c) : c[i].Role = "user"
               /\ c[1].Content = TopicPrompt(currentAgent[w])
               /\ Len(c) = 1 + n + (IF messages # <<>> THEN 1 ELSE 0)
               /\ \A i \in 1..n : c[i + 1].Content = Quoted(Spoken[i])
               /\ messages # <<>> => c[Len(c)].Content = Continuation

\* C19 witness: a context was built from a log with a separator between
\* the Messages of two agents
C19_Witness ==
    \E w \in Workers :
        /\ Len(chatMessages[w]) = 4
        /\ Len(messages) = 3
        /\ messages[2].AgentID = "system"
        /\ messages[1].AgentID # messages[3].AgentID

\* positions of NextTurn inside a critical section
CriticalPcs == {"guards", "count", "clear", "store"}

\* positions of NextTurn in front of a send on streamCh, of the call of
\* Chat, or of a receive from respCh
WaitingPcs ==
    {"sendStart", "chat", "sendChatError", "recv", "sendTerminal", "sendChunk",
     "sendEnd"}

\* C20: a turn holds the lock only inside its critical sections, none of
\* which sends, receives or calls upstream: in front of every send on the
\* stream channel, of the Chat call and of every receive from the response
\* channel the lock is free, and Stop, Reset, Continue, SetMode and
\* GetMessages can run at once
C20_NoLockWhileWaiting ==
    \A w \in LockWorkers :
        /\ mu = w => pc[w] \in CriticalPcs
        /\ pc[w] \in WaitingPcs =>
            /\ mu = "free"
            /\ Quiet =>
                /\ ENABLED LockedCall(Stop)
                /\ ENABLED LockedCall(Reset)
                /\ ENABLED LockedCall(GetMessages)
                /\ \A md \in Modes : ENABLED LockedCall(SetMode(md))
                /\ CounterRoom =>
                    \A t \in LockTopics : ENABLED LockedCall(Continue(t))

\* C20 witness: Stop returned while the turn waits for its first chunk
C20_Witness ==
    \E w \in LockWorkers :
        /\ pc[w] = "recv"
        /\ respCh[w] = <<>>
        /\ lastCall.op = "Stop"
        /\ isTurnInProgress

\* ------------------------------------------------------------ roster reload
\* UpdateAgents hands its result to its caller
UpdateAgentsReturns == lastCall = NoCall /\ lastCall'.op = "UpdateAgents"

\* C21: a roster reload replaces the roster by one of the reloaded rosters in
\* one step and puts the round-robin cursor at 0; the log, the topic, the
\* mode, the running flag and the turn-in-progress flag are as before, and a
\* turn in flight keeps its speaker, its scope and its Message id
C21_ReloadFrame ==
    [][UpdateAgentsReturns =>
          /\ agents' \in ReloadRosters
          /\ currentIndex' = 0
          /\ UNCHANGED <<messages, topic, mode, isRunning, isTurnInProgress>>
          /\ UNCHANGED <<currentAgent, wctx, msgID, pc>>]_vars

\* a reload has replaced the roster while a turn was in flight whose speaker
\* is no longer on the roster, and the cursor had moved before the reload
C21_Witness ==
    /\ lastCall.op = "UpdateAgents"
    /\ agents = <<"a1">>
    /\ currentIndex = 0
    /\ turnCount = 0
    /\ \E w \in Workers : InFlight(w) /\ currentAgent[w] = "a2"

\* ------------------------------------------------------------ option merge
\* the value the three tiers give option o: the caller's, else the agent's
\* default, else the zero value that leaves the choice to the adapter
ThreeTier(a, wish, o) ==
    IF wish[o].set THEN wish[o].value
    ELSE IF AgentHas(a, o) THEN a.Sampling[o]
    ELSE 0

\* C22: the options Agent.Chat hands to the provider are, for every sampling
\* option, the value the caller set explicitly (a zero included), else the
\* agent's default, else the zero value
C22_ThreeTierMerge ==
    agentCall.state = "delegated" =>
        \A o \in SamplingOptions :
            agentCall.opts[o] = ThreeTier(agentCall.agent, agentCall.wish, o)

\* ------------------------------------------------------- adapter streams
\* the lines the read loop has taken, and the line it takes next
LinesRead == SubSeq(adapter.body, 1, adapter.pos)
NextLine == adapter.body[adapter.pos + 1]

\* the loop is about to take a line of the body
AboutToRead == adapter.state = "reading" /\ adapter.pos < Len(adapter.body)

\* the line is an event of this type that the loop decodes
IsEvent(line, type) ==
    line.Prefix /\ Unmarshals(line) /\ line.Json.Type = type

\* the kind with which the block of this index was opened last in lines, or
\* "none" if it never was
RECURSIVE OpenedAs(_, _)
OpenedAs(index, lines) ==
    IF lines = <<>> THEN "none"
    ELSE LET l == lines[Len(lines)]
         IN IF IsEvent(l, "content_block_start") /\ l.Json.Index = index
            THEN l.Json.BlockType
            ELSE OpenedAs(index, SubSeq(lines, 1, Len(lines) - 1))

\* C23: when the loop of the Anthropic adapter takes a content_block_delta
\* with text whose block has been opened, it sends the text as a chunk if and
\* only if that block was opened with a kind other than thinking
C23_ThinkingSuppressed ==
    [][(/\ adapter.kind = "Anthropic"
        /\ AboutToRead
        /\ IsEvent(NextLine, "content_block_delta")
        /\ NextLine.Json.Text # ""
        /\ OpenedAs(NextLine.Json.Index, LinesRead) # "none")
       => ((adapter'.ch = Append(adapter.ch, ContentChunk(NextLine.Json.Text)))
             <=> OpenedAs(NextLine.Json.Index, LinesRead) # "thinking")]_vars

\* a Done or an Error
Terminal(chunk) == chunk.Done \/ chunk.Error # ErrNil

\* C24: on the channel of every adapter no item follows a Done or an Error;
\* the channel is closed exactly when a Done or an Error has been sent, so a
\* closed channel holds one terminal item, its last
C24_OneTerminalLast ==
    /\ \A i \in 1..(Len(adapter.ch) - 1) : ~Terminal(adapter.ch[i])
    /\ (adapter.state = "closed") <=>
           (adapter.ch # <<>> /\ Terminal(Last(adapter.ch)))

\* the Gemini adapter has sent two chunks of one line and then Done at the
\* end of the body, and has closed its channel
C24_Witness ==
    /\ adapter.state = "closed"
    /\ adapter.kind = "Gemini"
    /\ adapter.pos = Len(adapter.body)
    /\ adapter.ch = <<ContentChunk(PlainText), ContentChunk(PlainText), DoneChunk>>

\* the whole stream an adapter in state a sends for the lines it has left
RECURSIVE Run(_, _)
Run(a, lines) ==
    IF lines = <<>>
    THEN a.ch \o (IF a.ends = "EOF" THEN AtEOF ELSE <<ErrorChunk>>)
    ELSE LET turn == LoopTurn(a, Head(lines))
         IN IF turn.returns THEN a.ch \o turn.send
            ELSE Run([a EXCEPT !.ch = @ \o turn.send,
                               !.isThinkingBlock = turn.isThinkingBlock,
                               !.currentBlockIndex = turn.currentBlockIndex],
                     Tail(lines))

\* a frame that cannot be decoded, and a body without such frames
Malformed(line) == line.Raw = "garbage"
WithoutMalformed(body) == SelectSeq(body, LAMBDA l : ~Malformed(l))

\* C25: the stream an adapter has sent when it closes its channel is the
\* stream it sends for the same body with the malformed frames taken out
C25_MalformedSkipped ==
    (adapter.state = "closed" /\ adapter.http = "ok") =>
        adapter.ch =
            Run(NewAdapter(adapter.kind, "ok", adapter.body, adapter.ends),
                WithoutMalformed(adapter.body))

\* an adapter has read a malformed frame, then sent the text of a later
\* frame, and has come to the end of its stream
C25_Witness ==
    /\ adapter.state = "closed"
    /\ adapter.http = "ok"
    /\ Len(adapter.body) = MaxLines
    /\ Malformed(adapter.body[1])
    /\ adapter.ch = <<ContentChunk(PlainText), DoneChunk>>

\* the texts of the content chunks of a stream
RECURSIVE ChunkTexts(_)
ChunkTexts(ch) ==
    IF ch = <<>> THEN <<>>
    ELSE (IF Terminal(Head(ch)) THEN <<>> ELSE <<Head(ch).Content>>)
             \o ChunkTexts(Tail(ch))

\* the non-empty delta contents of a body of choice frames up to its
\* terminal signal: [DONE], a finish_reason of stop, or the end of the body
RECURSIVE Deltas(_)
Deltas(lines) ==
    IF lines = <<>> THEN <<>>
    ELSE LET l == Head(lines)
         IN IF l = DoneLine THEN <<>>
            ELSE IF l.Prefix /\ Unmarshals(l) /\ Len(l.Json.Choices) > 0
            THEN (IF l.Json.Choices[1].Content # ""
                  THEN <<l.Json.Choices[1].Content>> ELSE <<>>)
                     \o (IF l.Json.Choices[1].FinishReason = "stop" THEN <<>>
                         ELSE Deltas(Tail(lines)))
            ELSE Deltas(Tail(lines))

\* C26: for a body of well-formed frames that was read to its terminal
\* signal, the chunks of the OpenAI adapter carry exactly the non-empty delta
\* contents of the body, in order
C26_EveryDelta ==
    (/\ adapter.state = "closed"
     /\ adapter.kind = "OpenAI"
     /\ adapter.http = "ok"
     /\ adapter.ends = "EOF"
     /\ WithoutMalformed(adapter.body) = adapter.body)
    => ChunkTexts(adapter.ch) = Deltas(adapter.body)

\* -------------------------------------------------------- gateway responses
\* the contents of the content chunks of a stream, in order, and their
\* concatenation
RECURSIVE Concatenation(_)
Concatenation(texts) ==
    IF texts = <<>> THEN <<>> ELSE Head(texts) \o Concatenation(Tail(texts))

\* the handler has served a request whose call of Chat succeeded
Served(stream) ==
    /\ gateway.state = "done"
    /\ gateway.stream = stream
    /\ ~gateway.chatErr
    /\ stream => gateway.flusher

\* C27: the non-streaming handler answers a stream that ends with Done by a
\* completion whose content is the concatenation of the chunk contents in
\* order, with finish_reason "stop"; it answers a stream that ends with an
\* Error by an error response and no completion
C27_CompletionIsConcatenation ==
    Served(FALSE) =>
        IF Last(gateway.ch).Done
        THEN /\ gateway.status = 200
             /\ gateway.body = <<Completion(Concatenation(ChunkTexts(gateway.ch)))>>
             /\ gateway.body[1].FinishReason = "stop"
        ELSE /\ gateway.status = 500
             /\ gateway.body = <<ErrorBody>>

\* the chunks "Hel" and "lo" and Done have been answered by "Hello"
C27_Witness ==
    /\ Served(FALSE)
    /\ gateway.ch = <<ContentChunk(Hel), ContentChunk(lo), DoneChunk>>
    /\ gateway.body[1].Content = <<"H", "e", "l", "l", "o">>

\* a delta frame for every content chunk, in order
RECURSIVE DeltaFrames(_)
DeltaFrames(texts) ==
    IF texts = <<>> THEN <<>>
    ELSE <<DeltaFrame(Head(texts))>> \o DeltaFrames(Tail(texts))

\* C28: the frames of a streaming response are one delta frame per chunk of
\* the adapter in the adapter's order, then one frame with finish_reason
\* stop, then the [DONE] frame
C28_StreamEndsWithDone ==
    Served(TRUE) =>
        gateway.frames =
            DeltaFrames(ChunkTexts(gateway.ch)) \o <<FinishFrame, DoneFrame>>

\* ------------------------------------------------------------ sanitizing
\* C29: a text that has been cleaned is a fixed point of cleanMessageContent:
\* clean(clean(x)) = clean(x)
C29_CleanIdempotent ==
    (sanitizer.state = "text" /\ sanitizer.cleanings >= 1) =>
        cleanMessageContent(sanitizer.content) = sanitizer.content

\* the text holds no thinking marker
NoMarker(text) ==
    \A i \in 1..Len(text) : text[i] \notin {ThinkingWord, OpenTag, CloseTag}

\* C30: a text without a thinking or signature marker comes out of
\* cleanMessageContent as it went in
C30_CleanKeepsPlainText ==
    (/\ sanitizer.state = "text"
     /\ sanitizer.cleanings >= 1
     /\ NoMarker(sanitizer.raw))
    => sanitizer.content = sanitizer.raw


\* ------------------------------------------------- sessions and the log

\* the step in which the turn of worker w stores its Message
Stores(w) == pc[w] = "loop" /\ pc'[w] = "ret" /\ messages' # messages

\* C31: a turn never appends to the log of a later session: a turn that
\* stores its Message began after the last successful Start, so no Start
\* succeeded while it was in flight
C31_NoAppendToLaterSession ==
    [][\A w \in Workers : Stores(w) => ~startInFlight[w]]_vars

\* C32: the ids of the Messages in the log are pairwise distinct
C32_IdsDistinct ==
    \A i, j \in 1..Len(messages) :
        i # j => messages[i].ID # messages[j].ID

\* C33: with a non-empty roster the round-robin cursor is a valid roster
\* index, 0 <= cursor < N
C33_CursorInRoster ==
    Len(agents) > 0 => (0 <= currentIndex /\ currentIndex < Len(agents))

\* free-form mode in a roster that a reload has shrunk to the one agent who
\* spoke last: the fallback of selectNextAgent moved the cursor for the turn
\* now in flight
C33_Witness ==
    /\ agents = <<"a1">>
    /\ mode = ModeFreeForm
    /\ Len(messages) > 0
    /\ Last(messages).AgentID = "a1"
    /\ \E w \in ModeWorkers : pc[w] = "begin" /\ currentAgent[w] = "a1"
    /\ currentIndex = 0

\* C35: with at least two agents, after a completed free-form turn followed
\* by SetMode(round_robin), the next NextTurn that picks a speaker picks an
\* agent other than the speaker of that turn
C35_SwitchAlternates ==
    [][\A w \in Workers :
        (/\ NextTurnAdmitted(w)
         /\ freeFormTurn = "switched"
         /\ Len(agents) >= 2)
        => currentAgent'[w] # Last(messages).AgentID]_vars

\* --------------------------------------------------------- the HTTP server
\* the Server of a Manager: no turn handler has run, nothing was broadcast.
\* call[w] is the Manager call the handler of slot w started ("none": the
\* slot is free), sent[w] the events of its streamCh handed to Broadcast
NewServer ==
    [state |-> "serving",
     call |-> [w \in Workers |-> "none"],
     sent |-> [w \in Workers |-> 0],
     status |-> 0,
     hub |-> <<>>]

InitServer ==
    /\ NewManager
    /\ agentCall = NotCalled
    /\ adapter = NotCalled
    /\ gateway = NotCalled
    /\ sanitizer = NotCalled
    /\ server = NewServer
    /\ client = NotCalled
    /\ app = NotCalled

ServerLocal == <<agentCall, adapter, gateway, sanitizer, client, app>>

\* respondError(w, http.StatusBadRequest, "Debate is not running")
Refused == [server EXCEPT !.status = 400]

\* "streamCh := make(...)", the two "go func()" and respondJSON(w, 200, ...)
Spawned(w, call) == [server EXCEPT !.call[w] = call, !.status = 200]

\* handleNextTurn / handleAgentTurn: "if !s.manager.IsRunning()" refuses the
\* request, otherwise the channel is made and both goroutines are started
HandleTurn(w, call) ==
    /\ server.state = "serving"
    /\ Quiet
    /\ pc[w] = "idle"
    /\ w = IdleWorker
    /\ server.call[w] = "none"
    /\ server' = IF ~isRunning THEN Refused ELSE Spawned(w, call)
    /\ UNCHANGED <<mvars, wvars, hvars, lastCall, mu>>
    /\ UNCHANGED ServerLocal

\* handleNextTurn
HandleNextTurn(w) == HandleTurn(w, "NextTurn")

\* handleAgentTurn, for the agentID of the URL
HandleAgentTurn(w, agentID) == HandleTurn(w, agentID)

\* first goroutine: "s.manager.NextTurn(streamCh)" or
\* "s.manager.TurnByAgent(agentID, streamCh)"
ServerCall(w) ==
    /\ server.state = "serving"
    /\ server.call[w] # "none"
    /\ pc[w] = "idle"
    /\ IF server.call[w] = "NextTurn"
       THEN NextTurnCall(w)
       ELSE TurnByAgentCall(w, server.call[w])

\* the call has returned: its locals are gone, the stream it wrote lives on
CallEnds(w) ==
    /\ pc[w] = "ret"
    /\ currentAgent' = [currentAgent EXCEPT ![w] = "none"]
    /\ wctx' = [wctx EXCEPT ![w] = NoCtx]
    /\ chatMessages' = [chatMessages EXCEPT ![w] = <<>>]
    /\ msgID' = [msgID EXCEPT ![w] = 0]
    /\ respCh' = [respCh EXCEPT ![w] = <<>>]
    /\ prov' = [prov EXCEPT ![w] = "none"]
    /\ ret' = [ret EXCEPT ![w] = "none"]
    /\ stopInFlight' = [stopInFlight EXCEPT ![w] = FALSE]
    /\ stopStreaming' = [stopStreaming EXCEPT ![w] = FALSE]
    /\ startInFlight' = [startInFlight EXCEPT ![w] = FALSE]
    /\ cancelled' = Collect(cancelled, ctx, wctx')
    /\ UNCHANGED <<agents, messages, topic, mode, currentIndex, isRunning,
                   isTurnInProgress, ctx, msgCounter>>
    /\ UNCHANGED <<streamCh, turnCount, freeFormTurn, lastCall, mu>>

\* first goroutine, after the call: "defer close(streamCh)"
ServerTurnReturns(w) ==
    /\ server.state = "serving"
    /\ CallEnds(w)
    /\ pc' = [pc EXCEPT ![w] = "closed"]
    /\ UNCHANGED pvars

\* the event handed to Broadcast: the StreamMessage, and as history the
\* Message id of the turn that sent it (its start event carries it)
HubEvent(w, k) == [Type |-> streamCh[w][k].Type, turn |-> streamCh[w][1].MessageID]

\* second goroutine: "for msg := range streamCh { s.hub.Broadcast(msg) }"
Forward(w) ==
    /\ server.state = "serving"
    /\ server.call[w] # "none"
    /\ server.sent[w] < Len(streamCh[w])
    /\ server' = [server EXCEPT
                    !.sent[w] = @ + 1,
                    !.hub = Append(@, HubEvent(w, server.sent[w] + 1))]
    /\ UNCHANGED <<mvars, wvars, hvars, lastCall, mu>>
    /\ UNCHANGED ServerLocal

\* second goroutine: the range loop ends on the closed and drained channel
ForwarderEnds(w) ==
    /\ server.state = "serving"
    /\ pc[w] = "closed"
    /\ server.sent[w] = Len(streamCh[w])
    /\ pc' = [pc EXCEPT ![w] = "idle"]
    /\ streamCh' = [streamCh EXCEPT ![w] = <<>>]
    /\ server' = [server EXCEPT !.call[w] = "none", !.sent[w] = 0]
    /\ UNCHANGED <<mvars, hvars, lastCall, mu>>
    /\ UNCHANGED <<currentAgent, wctx, chatMessages, msgID, respCh, prov, ret>>
    /\ UNCHANGED ServerLocal

\* the agent that handleAgentTurn is asked for
ServerAgentIds == {"a2"}

NextServer ==
    \/ \E t \in LockTopics : Start(t)
    \/ CallReturns
    \/ \E w \in Workers : HandleNextTurn(w)
    \/ \E w \in Workers, a \in ServerAgentIds : HandleAgentTurn(w, a)
    \/ \E w \in Workers : ServerCall(w)
    \/ \E w \in Workers : BeginTurn(w)
    \/ \E w \in Workers : ProviderContent(w)
    \/ \E w \in Workers : ProviderDone(w)
    \/ \E w \in Workers : ProviderError(w)
    \/ \E w \in Workers : ReceiveError(w)
    \/ \E w \in Workers : ReceiveContent(w)
    \/ \E w \in Workers : ReceiveDone(w)
    \/ \E w \in Workers : ServerTurnReturns(w)
    \/ \E w \in Workers : Forward(w)
    \/ \E w \in Workers : ForwarderEnds(w)

\* the HTTP server: turns started through handleNextTurn and handleAgentTurn,
\* each with its own stream and its own forwarding goroutine
SpecServer == InitServer /\ [][NextServer]_vars

\* the event ends its turn
EndsTurn(ev) == ev.Type \in {"end", "error"}

\* C34: events reach the hub in turn order: the terminal event of a turn is
\* handed to Broadcast before the start event of every later turn
C34_HubInTurnOrder ==
    \A i, j \in 1..Len(server.hub) :
        (/\ i < j
         /\ server.hub[i].Type = "start"
         /\ EndsTurn(server.hub[j]))
        => server.hub[i].turn <= server.hub[j].turn

\* ------------------------------------------- the gateway's provider kinds
\* the kinds the agent factory knows
FactoryKinds ==
    {"openai", "anthropic", "gemini", "ollama", "grok", "deepseek", "perplexity"}

\* the provider names of the requests: the factory's kinds, the two aliases
\* of the gateway, a name nobody knows and no name at all
RequestedKinds == FactoryKinds \cup {"claude", "google", "other", ""}

\* the kinds the storage can hold an API key for
KeyKinds == FactoryKinds \ {"ollama"}

\* the default providers of the stored configurations
DefaultProviders == {"openai", "grok"}

\* provider.CreateProvider(cfg): the adapter made for cfg.Type, "error" for
\* "unknown provider type"
CreateProvider(type) == IF type \in FactoryKinds THEN type ELSE "error"

\* Proxy.getAPIKey: does the storage hold the key the gateway looks up
getAPIKey(providerType, keyed) ==
    CASE providerType = "openai" -> "openai" \in keyed
      [] providerType \in {"anthropic", "claude"} -> "anthropic" \in keyed
      [] providerType \in {"gemini", "google"} -> "gemini" \in keyed
      [] providerType = "ollama" -> FALSE
      [] OTHER -> "openai" \in keyed

\* Proxy.createProvider: the adapter made, "error" for "unknown provider"
createProvider(providerType) ==
    CASE providerType = "openai" -> "openai"
      [] providerType \in {"anthropic", "claude"} -> "anthropic"
      [] providerType \in {"gemini", "google"} -> "gemini"
      [] providerType = "ollama" -> "ollama"
      [] OTHER -> "error"

\* a decoded completion request and the stored configuration: the provider
\* the request names, the default provider, the kinds with a stored key
InitAccept ==
    /\ NewManager
    /\ agentCall = NotCalled
    /\ adapter = NotCalled
    /\ \E provider \in RequestedKinds, default \in DefaultProviders,
          keyed \in SUBSET KeyKinds :
          gateway = [state |-> "decoded", provider |-> provider,
                     default |-> default, keyed |-> keyed,
                     providerType |-> "", status |-> 0, prov |-> "none"]
    /\ sanitizer = NotCalled
    /\ NoFrontEnd

\* HandleChatCompletions from the decoded request to the adapter: the
\* default provider for an empty name, 401 without a key (ollama needs
\* none), 400 if createProvider fails
GatewayAccept ==
    /\ gateway.state = "decoded"
    /\ LET providerType ==
               IF gateway.provider = "" THEN gateway.default
               ELSE gateway.provider
           apiKey == getAPIKey(providerType, gateway.keyed)
       IN gateway' =
            IF ~apiKey /\ providerType # "ollama"
            THEN [gateway EXCEPT !.state = "done", !.status = 401,
                                 !.providerType = providerType]
            ELSE IF createProvider(providerType) = "error"
            THEN [gateway EXCEPT !.state = "done", !.status = 400,
                                 !.providerType = providerType]
            ELSE [gateway EXCEPT !.state = "created",
                                 !.providerType = providerType,
                                 !.prov = createProvider(providerType)]
    /\ UNCHANGED GatewayLocal

NextAccept == GatewayAccept

\* HandleChatCompletions applied to every request name under every stored
\* configuration
SpecAccept == InitAccept /\ [][NextAccept]_vars

\* C36: the gateway accepts every provider kind that the agent factory
\* accepts: a request that names a kind for which CreateProvider returns an
\* adapter, with the key of that kind stored, gets an adapter of that kind
\* and is not rejected
C36_GatewayAcceptsFactoryKinds ==
    (/\ gateway.state \in {"done", "created"}
     /\ gateway.provider # ""
     /\ CreateProvider(gateway.provider) # "error"
     /\ (gateway.provider \in gateway.keyed \/ gateway.provider = "ollama"))
    => (gateway.state = "created" /\ gateway.prov = CreateProvider(gateway.provider))

\* ---------------------------------------------------------- the web client
\* the timers of setTimeout(triggerNextTurn, 2000) that are modelled at once
MaxTimers == 2

\* the page once loaded.  streaming: currentStreamingMessage is not null;
\* stopAfter: window.stopAfterCurrentMessage; timers: scheduled
\* triggerNextTurn calls; stopAwaited: a stop request awaits its answer;
\* request: the request the last handler sent; history stopPressed: Stop was
\* pressed while the message now streaming was streaming
NewClient ==
    [state |-> "loaded", isDebateRunning |-> FALSE, isAutoMode |-> FALSE,
     streaming |-> FALSE, pendingTurn |-> FALSE, stopAfter |-> FALSE,
     timers |-> 0, stopAwaited |-> FALSE, request |-> "none",
     stopPressed |-> FALSE]

InitClient ==
    /\ NewManager
    /\ agentCall = NotCalled
    /\ adapter = NotCalled
    /\ gateway = NotCalled
    /\ sanitizer = NotCalled
    /\ server = NotCalled
    /\ client = NewClient
    /\ app = NotCalled

ClientLocal ==
    <<mvars, wvars, hvars, lastCall, mu, agentCall, adapter, gateway,
      sanitizer, server, app>>

\* the events of the WebSocket that the handler is modelled for
ClientEvents ==
    {"debate_started", "debate_stopped", "start", "chunk", "end", "error"}

\* case 'end' of handleWebSocketMessage
OnEnd(c) ==
    LET d == [c EXCEPT !.streaming = FALSE, !.stopPressed = FALSE]
    IN IF c.stopAfter
       THEN [d EXCEPT !.stopAfter = FALSE, !.request = "stop",
                      !.stopAwaited = TRUE]
       ELSE IF c.isAutoMode /\ c.isDebateRunning /\ ~c.pendingTurn
       THEN [d EXCEPT !.pendingTurn = TRUE, !.timers = @ + 1,
                      !.request = "none"]
       ELSE [d EXCEPT !.request = "none"]

\* case 'error' of handleWebSocketMessage
OnError(c) ==
    [c EXCEPT !.streaming = FALSE, !.stopPressed = FALSE, !.request = "none"]

\* handleWebSocketMessage(data)
handleWebSocketMessage(c, type) ==
    CASE type = "debate_started" ->
            [c EXCEPT !.isDebateRunning = TRUE, !.request = "none"]
      [] type = "debate_stopped" ->
            [c EXCEPT !.isDebateRunning = FALSE, !.isAutoMode = FALSE,
                      !.request = "none"]
      [] type = "start" ->
            [c EXCEPT !.streaming = TRUE, !.stopPressed = FALSE,
                      !.request = "none"]
      [] type = "chunk" -> [c EXCEPT !.request = "none"]
      [] type = "end" -> OnEnd(c)
      [] type = "error" -> OnError(c)

\* ws.onmessage: one event of the server is handled
ClientReceive(type) ==
    /\ client.state = "loaded"
    /\ (type = "end" /\ client.isAutoMode /\ client.isDebateRunning
            /\ ~client.pendingTurn /\ ~client.stopAfter)
        => client.timers < MaxTimers
    /\ client' = handleWebSocketMessage(client, type)
    /\ UNCHANGED ClientLocal

\* stopDebate, the click handler of the Stop button, which updateControls
\* enables while isDebateRunning
PressStop ==
    /\ client.state = "loaded"
    /\ client.isDebateRunning
    /\ client' =
          LET c == [client EXCEPT !.isAutoMode = FALSE, !.pendingTurn = FALSE]
          IN IF client.streaming
             THEN [c EXCEPT !.stopAfter = TRUE, !.stopPressed = TRUE,
                            !.request = "none"]
             ELSE [c EXCEPT !.request = "stop", !.stopAwaited = TRUE]
    /\ UNCHANGED ClientLocal

\* the answer to a stop request: "isDebateRunning = false; updateControls()"
StopAnswered ==
    /\ client.state = "loaded"
    /\ client.stopAwaited
    /\ client' = [client EXCEPT !.stopAwaited = FALSE,
                                !.isDebateRunning = FALSE, !.request = "none"]
    /\ UNCHANGED ClientLocal

\* toggleAutoMode, the click handler of the Auto button
PressAuto ==
    /\ client.state = "loaded"
    /\ client.isDebateRunning
    /\ client' = [client EXCEPT !.isAutoMode = ~@, !.request = "none"]
    /\ UNCHANGED ClientLocal

\* triggerNextTurn, called by a timer, with agents selected for auto mode
TimerFires ==
    /\ client.state = "loaded"
    /\ client.timers > 0
    /\ client' =
          IF ~client.isDebateRunning
          THEN [client EXCEPT !.timers = @ - 1, !.request = "none"]
          ELSE [client EXCEPT !.timers = @ - 1, !.pendingTurn = FALSE,
                              !.request = "next"]
    /\ UNCHANGED ClientLocal

NextClient ==
    \/ \E type \in ClientEvents : ClientReceive(type)
    \/ PressStop
    \/ StopAnswered
    \/ PressAuto
    \/ TimerFires

\* the web client under every order of server events, clicks and timers
SpecClient == InitClient /\ [][NextClient]_vars

\* C37: when Stop was pressed while a message was streaming, the stop
\* request is sent in the step in which that message terminates, be it by
\* an end event or by an error event
C37_StopSentAtTermination ==
    [][(/\ client.streaming
        /\ client.stopPressed
        /\ ~client'.streaming)
       => client'.request = "stop"]_vars

\* --------------------------------------------------------- the desktop app
\* the App of a Manager: no turn worker runs.  call[w] is the Manager call
\* of the worker of slot w ("none": no worker), sent[w] the events of its
\* streamCh that processStream has emitted, closed[w] whether its streamCh
\* is closed, failed[w] whether its inner goroutine emitted agent:error
NewApp ==
    [state |-> "running",
     call |-> [w \in Workers |-> "none"],
     sent |-> [w \in Workers |-> 0],
     closed |-> [w \in Workers |-> FALSE],
     failed |-> [w \in Workers |-> FALSE]]

InitApp ==
    /\ NewManager
    /\ agentCall = NotCalled
    /\ adapter = NotCalled
    /\ gateway = NotCalled
    /\ sanitizer = NotCalled
    /\ server = NotCalled
    /\ client = NotCalled
    /\ app = NewApp

AppLocal == <<agentCall, adapter, gateway, sanitizer, server, client>>

\* TriggerNextAgent / TriggerAgent: "if !a.manager.IsRunning()" returns an
\* error, otherwise "go a.executeNextTurn()" / "go a.executeAgentTurn(id)",
\* whose first statement makes the channel
Trigger(w, call) ==
    /\ app.state = "running"
    /\ Quiet
    /\ pc[w] = "idle"
    /\ w = IdleWorker
    /\ app.call[w] = "none"
    /\ isRunning
    /\ app' = [app EXCEPT !.call[w] = call]
    /\ UNCHANGED <<mvars, wvars, hvars, lastCall, mu>>
    /\ UNCHANGED AppLocal

\* TriggerNextAgent
TriggerNextAgent(w) == Trigger(w, "NextTurn")

\* TriggerAgent(agentID)
TriggerAgent(w, agentID) == Trigger(w, agentID)

\* inner goroutine: "a.manager.NextTurn(streamCh)" or
\* "a.manager.TurnByAgent(agentID, streamCh)"
AppCall(w) ==
    /\ app.state = "running"
    /\ app.call[w] # "none"
    /\ pc[w] = "idle"
    /\ IF app.call[w] = "NextTurn"
       THEN NextTurnCall(w)
       ELSE TurnByAgentCall(w, app.call[w])

\* inner goroutine, after the call: "if err != nil { ... EventsEmit(a.ctx,
\* "agent:error", ...) }", and the goroutine ends; streamCh stays open
AppCallReturns(w) ==
    /\ app.state = "running"
    /\ CallEnds(w)
    /\ pc' = [pc EXCEPT ![w] = "returned"]
    /\ app' = [app EXCEPT !.failed[w] = ret[w] # "nil"]
    /\ UNCHANGED AppLocal

\* processStream, one turn of "for msg := range streamCh": the next event
\* is emitted; on a closed and drained channel the loop ends, processStream
\* and the worker return
ProcessStream(w) ==
    /\ app.state = "running"
    /\ app.call[w] # "none"
    /\ IF app.sent[w] < Len(streamCh[w])
       THEN /\ app' = [app EXCEPT !.sent[w] = @ + 1]
            /\ UNCHANGED <<pc, streamCh>>
       ELSE /\ app.closed[w]
            /\ pc[w] = "returned"
            /\ pc' = [pc EXCEPT ![w] = "idle"]
            /\ streamCh' = [streamCh EXCEPT ![w] = <<>>]
            /\ app' = [app EXCEPT !.call[w] = "none", !.sent[w] = 0,
                                  !.closed[w] = FALSE, !.failed[w] = FALSE]
    /\ UNCHANGED <<mvars, hvars, lastCall, mu>>
    /\ UNCHANGED <<currentAgent, wctx, chatMessages, msgID, respCh, prov, ret>>
    /\ UNCHANGED AppLocal

\* the agent that TriggerAgent is called for
AppAgentIds == {"a2", "nobody"}

\* the steps of the goroutines of the worker of slot w
AppWorkerSteps(w) ==
    \/ AppCall(w)
    \/ BeginTurn(w)
    \/ ProviderContent(w)
    \/ ProviderDone(w)
    \/ ProviderError(w)
    \/ ProviderCanceled(w)
    \/ ReceiveError(w)
    \/ ReceiveContent(w)
    \/ ReceiveDone(w)
    \/ AppCallReturns(w)
    \/ ProcessStream(w)

NextApp ==
    \/ \E t \in LockTopics : Start(t)
    \/ Stop
    \/ CallReturns
    \/ \E w \in Workers : TriggerNextAgent(w)
    \/ \E w \in Workers, a \in AppAgentIds : TriggerAgent(w, a)
    \/ \E w \in Workers : AppWorkerSteps(w)

\* the desktop app: turns started through TriggerNextAgent and TriggerAgent
SpecApp == InitApp /\ [][NextApp]_vars

\* the desktop app whose goroutines are scheduled again and again: a step
\* of a worker that stays possible is taken
LiveApp == SpecApp /\ \A w \in Workers : WF_vars(AppWorkerSteps(w))

\* C38: the worker that forwards a turn's events terminates after the
\* turn's NextTurn/TurnByAgent call has returned, be the turn successful,
\* failed or rejected by a guard
C38_WorkerTerminates ==
    \A w \in Workers : (pc[w] = "returned") ~> (app.call[w] = "none")

====
